---- MODULE Spec2Model ----
(***************************************************************************)
(* DakkeManager: the branch manager (branch_manager.py) and the per-branch *)
(* middleware (holoo_api.py).                                              *)
(*                                                                         *)
(* Six specifications share the variables below:                           *)
(*   SpecClient    HolooAPIClient called once on a drawn transport         *)
(*   SpecBoundary  the same, on anything an HTTP server can answer         *)
(*   Spec          the main window from start-up, driven by user events    *)
(*   SpecApply     one dispatch cycle (do_apply_changes) on a drawn ledger *)
(*   SpecTable     update_table called on drawn snapshots and view         *)
(*   SpecService   the middleware answering one drawn request              *)
(*                                                                         *)
(* Persian string literals of the source are written in ASCII:             *)
(*   "qeymat" = price, "nam" = name, "goruh" = group, "mojudi" = stock.    *)
(***************************************************************************)
EXTENDS Integers, Sequences, FiniteSets, TLC

VARIABLES
    c_in,             \* harness: the drawn input of the call
    c_out,            \* harness: what the call returned and did
    retry,            \* MainWindow.retry
    branches,         \* MainWindow.branches: sequence of Branch records
    star_checked,     \* BranchWidget.star_btn.isChecked(), per widget
    pending_changes,  \* MainWindow.pending_changes
    buttons,          \* setEnabled state of apply_btn and fetch_btn
    stack,            \* passes in progress, innermost last (processEvents nests them)
    io,               \* the HTTP calls made by the last step
    db,               \* per database: the ARTICLE table behind the middleware
    report            \* the tallies of the last finished dispatch cycle

vars == <<c_in, c_out, retry, branches, star_checked, pending_changes,
          buttons, stack, io, db, report>>

clientVars == <<c_in, c_out>>
uiVars == <<retry, branches, star_checked, pending_changes, buttons, stack, io,
            db, report>>

-----------------------------------------------------------------------------
(* Bounds *)

MaxRetry == 3

DEFAULT_RETRY == 3

-----------------------------------------------------------------------------
(* Python helpers *)

\* dict.get(key, default)
Get(d, key, default) == IF key \in DOMAIN d THEN d[key] ELSE default

Range(s) == {s[i] : i \in 1..Len(s)}

-----------------------------------------------------------------------------
(* The transport: what one HTTP attempt ends in *)

ConnectionError == [exc |-> "ConnectionError"]
Timeout == [exc |-> "Timeout"]
\* response.json() raises on a body that is not JSON
JSONDecodeError == [exc |-> "JSONDecodeError"]

Response(status_code, body) ==
    [exc |-> "none", status_code |-> status_code, body |-> body]

AttemptErrors == {ConnectionError, Timeout, JSONDecodeError}

\* bodies the middleware answers with
INVALID_API_KEY == [success |-> FALSE, error_code |-> "INVALID_API_KEY"]
NOT_FOUND == [success |-> FALSE, error_code |-> "NOT_FOUND"]
DbStatus(ok, status) == [success |-> ok, status |-> status]

\* response.json() of a body that is JSON but not an object: it has no .get
JsonArray == [nondict |-> "list"]
IsDict(result) == "nondict" \notin DOMAIN result

CheckDbResponses ==
    { Response(200, DbStatus(TRUE, "DB_CONNECTED")),
      Response(500, DbStatus(FALSE, "DB_AUTH_ERROR")),
      Response(500, DbStatus(FALSE, "DB_NOT_FOUND")),
      Response(500, DbStatus(FALSE, "DB_CONNECTION_ERROR")),
      Response(400, DbStatus(FALSE, "DB_PARAM_MISSING")),
      Response(401, INVALID_API_KEY),
      Response(404, NOT_FOUND) }

\* one row of dbo.ARTICLE as /articles returns it (holoo_api.get_articles)
Article(code, name, price) ==
    [code |-> code, name |-> name, price |-> price, stock1 |-> 0, stock2 |-> 0,
     group_code |-> "", group_name |-> ""]

SampleData == <<Article("1001", "X", 100)>>

ArticlesResponses ==
    { Response(200, [success |-> TRUE, data |-> SampleData, total |-> 1, count |-> 1]),
      Response(200, [success |-> TRUE, data |-> <<>>, total |-> 0, count |-> 0]),
      Response(500, [success |-> FALSE, error_code |-> "FETCH_ERROR"]),
      Response(401, INVALID_API_KEY) }

BatchSummary(ok, bad) ==
    [total |-> ok + bad, success_count |-> ok, failed_count |-> bad]

BatchResponses ==
    { Response(200, [success |-> TRUE, summary |-> BatchSummary(2, 1)]),
      Response(500, [success |-> FALSE, error_code |-> "BATCH_ERROR"]),
      Response(400, [success |-> FALSE, error_code |-> "EMPTY_LIST"]),
      Response(401, INVALID_API_KEY) }

RECURSIVE SeqsOfLen(_, _)
SeqsOfLen(S, n) ==
    IF n = 0 THEN {<<>>}
    ELSE {Append(s, x) : s \in SeqsOfLen(S, n - 1), x \in S}

\* A transport is what the attempts 1, 2, ... of one call end in. _request returns
\* at the first attempt that yields a response, so a transport is a run of failing
\* attempts closed by a response; MaxRetry failures outlast every retry count.
TransportsOver(responses) ==
    UNION { {Append(errs, r) : errs \in SeqsOfLen(AttemptErrors, k), r \in responses}
            : k \in 0..MaxRetry }

RetryCounts == 0..MaxRetry

-----------------------------------------------------------------------------
(* HolooAPIClient *)

\* the text _request records for a failed attempt (lines 187-192)
ErrorText(exc) ==
    CASE exc = "ConnectionError" -> "server unreachable"
      [] exc = "Timeout" -> "request timeout"
      [] OTHER -> exc

\* faulty variant: the first error recorded is kept
RECURSIVE RequestLoopFirstError(_, _, _, _, _)
RequestLoopFirstError(n, transport, attempt, last_error, sleeps) ==
    IF attempt >= n
    THEN [result |-> [success |-> FALSE, error |-> last_error],
          attempts |-> attempt, sleeps |-> sleeps]
    ELSE LET o == transport[attempt + 1] IN
         IF o.exc = "none"
         THEN [result |-> o.body, attempts |-> attempt + 1, sleeps |-> sleeps]
         ELSE RequestLoopFirstError(n, transport, attempt + 1,
                          IF last_error = "None" THEN ErrorText(o.exc) ELSE last_error,
                          IF attempt < n - 1 THEN sleeps + 1 ELSE sleeps)

\* faulty variant: a response that reports success = false is retried like an exception
RECURSIVE RequestLoopRetryErrorBody(_, _, _, _, _)
RequestLoopRetryErrorBody(n, transport, attempt, last_error, sleeps) ==
    IF attempt >= n
    THEN [result |-> [success |-> FALSE, error |-> last_error],
          attempts |-> attempt, sleeps |-> sleeps]
    ELSE LET o == transport[IF attempt + 1 <= Len(transport)
                            THEN attempt + 1 ELSE Len(transport)] IN
         IF o.exc = "none" /\ o.body.success
         THEN [result |-> o.body, attempts |-> attempt + 1, sleeps |-> sleeps]
         ELSE RequestLoopRetryErrorBody(n, transport, attempt + 1,
                          IF o.exc = "none" THEN "error response" ELSE ErrorText(o.exc),
                          IF attempt < n - 1 THEN sleeps + 1 ELSE sleeps)

\* faulty variant: one attempt fewer than the retry count
RECURSIVE RequestLoopOffByOne(_, _, _, _, _)
RequestLoopOffByOne(n, transport, attempt, last_error, sleeps) ==
    IF attempt >= n - 1
    THEN [result |-> [success |-> FALSE, error |-> last_error],
          attempts |-> attempt, sleeps |-> sleeps]
    ELSE LET o == transport[attempt + 1] IN
         IF o.exc = "none"
         THEN [result |-> o.body, attempts |-> attempt + 1, sleeps |-> sleeps]
         ELSE RequestLoopOffByOne(n, transport, attempt + 1, ErrorText(o.exc),
                          IF attempt < n - 1 THEN sleeps + 1 ELSE sleeps)

\* faulty variant: the wait follows every failed attempt, the last one too
RECURSIVE RequestLoopSleepsLast(_, _, _, _, _)
RequestLoopSleepsLast(n, transport, attempt, last_error, sleeps) ==
    IF attempt >= n
    THEN [result |-> [success |-> FALSE, error |-> last_error],
          attempts |-> attempt, sleeps |-> sleeps]
    ELSE LET o == transport[attempt + 1] IN
         IF o.exc = "none"
         THEN [result |-> o.body, attempts |-> attempt + 1, sleeps |-> sleeps]
         ELSE RequestLoopSleepsLast(n, transport, attempt + 1, ErrorText(o.exc),
                                    sleeps + 1)

\* The loop of _request. attempt counts the attempts already made (the loop
\* variable); sleeps counts the time.sleep(1) calls.
RECURSIVE RequestLoop(_, _, _, _, _)
RequestLoop(n, transport, attempt, last_error, sleeps) ==
    IF attempt >= n
    THEN [result |-> [success |-> FALSE, error |-> last_error],
          attempts |-> attempt, sleeps |-> sleeps]
    ELSE LET o == transport[attempt + 1] IN
         IF o.exc = "none"
         THEN [result |-> o.body, attempts |-> attempt + 1, sleeps |-> sleeps]
         ELSE RequestLoop(n, transport, attempt + 1, ErrorText(o.exc),
                          IF attempt < n - 1 THEN sleeps + 1 ELSE sleeps)

\* _request with what it did: the dict returned, the attempts made, the waits
RequestRun(n, transport) == RequestLoop(n, transport, 0, "None", 0)

_request(n, transport) == RequestRun(n, transport).result

UNKNOWN == "UNKNOWN"
OFFLINE == "OFFLINE"
API_DOWN == "API_DOWN"
AUTH_ERROR == "AUTH_ERROR"
CONNECTED == "CONNECTED"
BranchStatus == {UNKNOWN, OFFLINE, API_DOWN, AUTH_ERROR, CONNECTED}

\* one HTTP call as the steps record it: the endpoint, the attempts made, the waits
Call(endpoint, run) ==
    [endpoint |-> endpoint, attempts |-> run.attempts, sleeps |-> run.sleeps]

PingCall == [endpoint |-> "/ping", attempts |-> 1, sleeps |-> 0]

\* faulty variant: DB_NOT_FOUND is not taken for an authentication failure
CheckHealthRunNotFound(ping, n, transport) ==
    IF ping.exc # "none" THEN [value |-> OFFLINE, calls |-> <<PingCall>>]
    ELSE IF ping.status_code # 200 THEN [value |-> API_DOWN, calls |-> <<PingCall>>]
    ELSE LET run == RequestRun(n, transport)
             result == run.result
             calls == <<PingCall, Call("/check/db", run)>>
         IN  IF ~IsDict(result)
             THEN [value |-> "AttributeError", calls |-> calls, raised |-> TRUE]
             ELSE IF ~Get(result, "success", FALSE)
             THEN IF Get(result, "status", "") \in {"DB_AUTH_ERROR"}
                  THEN [value |-> AUTH_ERROR, calls |-> calls]
                  ELSE [value |-> API_DOWN, calls |-> calls]
             ELSE [value |-> CONNECTED, calls |-> calls]

\* check_health with the calls it made; ping is what the single GET /ping ends in.
\* result.get on a result that is not a dict raises: value is then the exception
\* and raised is set.
CheckHealthRun(ping, n, transport) ==
    IF ping.exc # "none" THEN [value |-> OFFLINE, calls |-> <<PingCall>>]
    ELSE IF ping.status_code # 200 THEN [value |-> API_DOWN, calls |-> <<PingCall>>]
    ELSE LET run == RequestRun(n, transport)
             result == run.result
             calls == <<PingCall, Call("/check/db", run)>>
         IN  IF ~IsDict(result)
             THEN [value |-> "AttributeError", calls |-> calls, raised |-> TRUE]
             ELSE IF ~Get(result, "success", FALSE)
             THEN IF Get(result, "status", "") \in {"DB_AUTH_ERROR", "DB_NOT_FOUND"}
                  THEN [value |-> AUTH_ERROR, calls |-> calls]
                  ELSE [value |-> API_DOWN, calls |-> calls]
             ELSE [value |-> CONNECTED, calls |-> calls]

check_health(ping, n, transport) == CheckHealthRun(ping, n, transport).value

GetArticlesRun(n, transport) ==
    LET run == RequestRun(n, transport)
        result == run.result
    IN  IF ~IsDict(result)
        THEN [value |-> <<>>, calls |-> <<Call("/articles", run)>>, raised |-> TRUE]
        ELSE [value |-> IF Get(result, "success", FALSE)
                        THEN Get(result, "data", <<>>)
                        ELSE <<>>,
              calls |-> <<Call("/articles", run)>>]

get_articles(n, transport) == GetArticlesRun(n, transport).value

BatchUpdateRun(n, transport) ==
    LET run == RequestRun(n, transport)
    IN  [value |-> run.result, calls |-> <<Call("/batch/update", run)>>]

batch_update(n, transport) == BatchUpdateRun(n, transport).value

UpdateArticleRun(n, transport) ==
    LET run == RequestRun(n, transport)
    IN  [value |-> run.result, calls |-> <<Call("/article/<code>/update", run)>>]

update_article(n, transport) == UpdateArticleRun(n, transport).value

-----------------------------------------------------------------------------
(* SpecClient: one client method called on a drawn retry count and transport *)

PingOutcomes ==
    { ConnectionError, Timeout,
      Response(200, [success |-> TRUE, message |-> "pong"]),
      Response(500, [success |-> FALSE, error_code |-> "SERVER_ERROR"]),
      Response(404, NOT_FOUND) }

AllResponses == CheckDbResponses \cup ArticlesResponses \cup BatchResponses

NotCalled == [op |-> "none"]

Returned(op, run) ==
    [op |-> op, value |-> run.value, calls |-> run.calls,
     raised |-> Get(run, "raised", FALSE)]

InitClient ==
    /\ c_in \in [retry : RetryCounts, ping : PingOutcomes,
                 transport : TransportsOver(AllResponses)]
    /\ c_out = NotCalled

CallCheckHealth ==
    /\ c_out = NotCalled
    /\ c_out' = Returned("check_health",
                         CheckHealthRun(c_in.ping, c_in.retry, c_in.transport))
    /\ UNCHANGED c_in

CallGetArticles ==
    /\ c_out = NotCalled
    /\ c_out' = Returned("get_articles", GetArticlesRun(c_in.retry, c_in.transport))
    /\ UNCHANGED c_in

CallBatchUpdate ==
    /\ c_out = NotCalled
    /\ c_out' = Returned("batch_update", BatchUpdateRun(c_in.retry, c_in.transport))
    /\ UNCHANGED c_in

CallUpdateArticle ==
    /\ c_out = NotCalled
    /\ c_out' = Returned("update_article",
                         UpdateArticleRun(c_in.retry, c_in.transport))
    /\ UNCHANGED c_in

-----------------------------------------------------------------------------
(* The main window: configuration and registry *)

\* One [[branches]] entry of branches.toml. conn stands for the connection facts
\* (ip, port, database, user, password): two entries with the same conn reach the
\* same middleware and database.
BranchConfig(name, conn) == [name |-> name, conn |-> conn]

Conns == {"c1", "c2"}

\* The configurations the window is started on: one branch; two distinct branches;
\* two names on one database; one name on two databases; the same entry twice.
Configs ==
    { <<BranchConfig("A", "c1")>>,
      <<BranchConfig("A", "c1"), BranchConfig("B", "c2")>>,
      <<BranchConfig("A", "c1"), BranchConfig("B", "c1")>>,
      <<BranchConfig("A", "c1"), BranchConfig("A", "c2")>>,
      <<BranchConfig("A", "c1"), BranchConfig("A", "c1")>> }

\* the Branch dataclass; == on it compares every field (dataclass eq)
Branch(cfg, is_reference) ==
    [name |-> cfg.name, conn |-> cfg.conn, status |-> UNKNOWN, enabled |-> TRUE,
     is_reference |-> is_reference, articles |-> <<>>]

load_config(config) == [i \in 1..Len(config) |-> Branch(config[i], i = 1)]

\* what each database holds when the window starts
DbInit == [c \in Conns |-> <<Article("1001", IF c = "c1" THEN "X" ELSE "Y", 100)>>]

NoReport == [done |-> FALSE]

\* faulty variant: the apply button is left as QPushButton creates it, enabled
setup_ui_apply_enabled == [apply_btn |-> TRUE, fetch_btn |-> TRUE]

\* setup_ui: the buttons as the window shows them first; the apply button is
\* disabled
setup_ui == [apply_btn |-> FALSE, fetch_btn |-> TRUE]

InitWindow(config, n) ==
    /\ retry = n
    /\ branches = load_config(config)
    /\ star_checked = [i \in 1..Len(config) |-> branches[i].is_reference]
    /\ pending_changes = <<>>
    /\ buttons = setup_ui
    /\ stack = <<>>
    /\ io = <<>>
    /\ db = DbInit
    /\ report = NoReport

ClientIdle ==
    /\ c_in = [retry |-> 0, ping |-> ConnectionError,
               transport |-> <<Response(404, NOT_FOUND)>>]
    /\ c_out = NotCalled

\* settings.retry_count of the configurations: none, and the default
WindowRetries == {0, DEFAULT_RETRY}

Init ==
    /\ ClientIdle
    /\ \E config \in Configs, n \in WindowRetries : InitWindow(config, n)

WindowIdle == InitWindow(<<BranchConfig("A", "c1")>>, 0)

Indices == 1..Len(branches)

\* BranchWidget.set_as_reference(False) on every widget whose branch != branch
on_reference_changed(bs, stars, i) ==
    IF bs[i].is_reference
    THEN [branches |-> [j \in DOMAIN bs |->
                          IF bs[j] # bs[i]
                          THEN [bs[j] EXCEPT !.is_reference = FALSE]
                          ELSE bs[j]],
          star_checked |-> [j \in DOMAIN bs |->
                              IF bs[j] # bs[i] THEN FALSE ELSE stars[j]]]
    ELSE [branches |-> bs, star_checked |-> stars]

\* the click toggles the checkable star_btn, then clicked and reference_changed
\* run their slots
on_star_clicked(bs, stars, i) ==
    LET checked == ~stars[i] IN
    on_reference_changed([bs EXCEPT ![i].is_reference = checked],
                         [stars EXCEPT ![i] = checked], i)

\* faulty variant: a branch that is switched off forgets its status and snapshot
on_enabled_changed_forgets(bs, i, checked) ==
    IF checked THEN [bs EXCEPT ![i].enabled = checked]
    ELSE [bs EXCEPT ![i].enabled = checked, ![i].status = UNKNOWN,
                    ![i].articles = <<>>]

on_enabled_changed(bs, i, checked) == [bs EXCEPT ![i].enabled = checked]

\* A user event is delivered when no handler runs, or inside the
\* QApplication.processEvents() of the innermost pass.
Top == stack[Len(stack)]
EventsOpen == IF stack = <<>> THEN TRUE ELSE Top.events

StarClick(i) ==
    /\ EventsOpen
    /\ LET r == on_star_clicked(branches, star_checked, i) IN
       /\ branches' = r.branches
       /\ star_checked' = r.star_checked
    /\ io' = <<>>
    /\ UNCHANGED <<clientVars, retry, pending_changes, buttons, stack, db, report>>

EnabledToggle(i) ==
    /\ EventsOpen
    /\ branches' = on_enabled_changed(branches, i, ~branches[i].enabled)
    /\ io' = <<>>
    /\ UNCHANGED <<clientVars, retry, star_checked, pending_changes, buttons, stack,
                   db, report>>

-----------------------------------------------------------------------------
(* Health pass *)

\* the calls of one client method as io records them: calls that sent nothing
\* (a retry count of 0) are left out
RECURSIVE NetCalls(_, _)
NetCalls(i, calls) ==
    IF calls = <<>> THEN <<>>
    ELSE LET rest == NetCalls(i, Tail(calls)) IN
         IF Head(calls).attempts > 0
         THEN <<[branch |-> i, endpoint |-> Head(calls).endpoint]>> \o rest
         ELSE rest

\* what a health check can end in, per retry count: the status and the calls made
HealthResults ==
    [n \in RetryCounts |->
        { [value |-> r.value, calls |-> NetCalls(0, r.calls)] :
            r \in { CheckHealthRun(p, n, t) :
                      p \in PingOutcomes, t \in TransportsOver(CheckDbResponses) } }]

\* stands for the result of a branch that is not probed
NotProbed == CHOOSE r \in HealthResults[0] : TRUE

OnBranch(i, calls) == [k \in 1..Len(calls) |-> [calls[k] EXCEPT !.branch = i]]

RECURSIVE HealthCalls(_, _, _)
HealthCalls(bs, results, i) ==
    IF i > Len(bs) THEN <<>>
    ELSE (IF bs[i].enabled THEN OnBranch(i, results[i].calls) ELSE <<>>)
         \o HealthCalls(bs, results, i + 1)

\* faulty variant: a branch that is switched off keeps the status it had
check_all_branches_keeps_status(bs, results) ==
    [i \in DOMAIN bs |->
        IF bs[i].enabled
        THEN [bs[i] EXCEPT !.status = results[i].value]
        ELSE bs[i]]

\* results[i] is what check_health ends in for branch i, if it is called
check_all_branches(bs, results) ==
    [i \in DOMAIN bs |->
        IF bs[i].enabled
        THEN [bs[i] EXCEPT !.status = results[i].value]
        ELSE [bs[i] EXCEPT !.status = UNKNOWN]]

CheckAllBranches ==
    /\ EventsOpen
    /\ \E results \in [Indices -> HealthResults[retry]] :
        /\ \A i \in Indices : ~branches[i].enabled => results[i] = NotProbed
        /\ branches' = check_all_branches(branches, results)
        /\ io' = HealthCalls(branches, results, 1)
    /\ UNCHANGED <<clientVars, retry, star_checked, pending_changes, buttons, stack,
                   db, report>>

-----------------------------------------------------------------------------
(* Fetch pass *)

\* holoo_api.get_articles: what POST /articles answers
ArticlesEndpoint(table) ==
    { Response(200, [success |-> TRUE, data |-> table, total |-> Len(table),
                     count |-> Len(table)]),
      Response(500, [success |-> FALSE, error_code |-> "FETCH_ERROR"]),
      Response(401, INVALID_API_KEY) }

\* what get_articles can end in on a database holding table: the list returned
\* and the calls made
FetchResults(n, table) ==
    { [value |-> r.value, calls |-> NetCalls(0, r.calls)] :
        r \in { GetArticlesRun(n, t) : t \in TransportsOver(ArticlesEndpoint(table)) } }

\* [b for b in self.branches if b.enabled and b.status == CONNECTED], as indices
RECURSIVE FetchList(_, _)
FetchList(bs, i) ==
    IF i > Len(bs) THEN <<>>
    ELSE (IF bs[i].enabled /\ bs[i].status = CONNECTED THEN <<i>> ELSE <<>>)
         \o FetchList(bs, i + 1)

\* faulty variant: every enabled branch is fetched, whatever its status
enabled_branches_any_status(bs) ==
    SelectSeq([i \in DOMAIN bs |-> i], LAMBDA i : bs[i].enabled)

enabled_branches(bs) == FetchList(bs, 1)

FetchFrame(list, trailing) ==
    [kind |-> "fetch", enabled_branches |-> list, i |-> 0, events |-> FALSE,
     trailing |-> trailing]

\* fetch_all_data up to its loop; nothing happens when no branch is enabled and
\* connected
FetchClick ==
    /\ EventsOpen
    /\ buttons.fetch_btn
    /\ LET list == enabled_branches(branches) IN
       IF list = <<>>
       THEN UNCHANGED <<stack, buttons>>
       ELSE /\ stack' = Append(stack, FetchFrame(list, FALSE))
            /\ buttons' = [buttons EXCEPT !.fetch_btn = FALSE]
    /\ io' = <<>>
    /\ UNCHANGED <<clientVars, retry, branches, star_checked, pending_changes, db,
                   report>>

\* one iteration of the loop: get_articles, the assignment, processEvents
FetchStep ==
    /\ stack # <<>>
    /\ Top.kind = "fetch"
    /\ Top.i < Len(Top.enabled_branches)
    /\ LET b == Top.enabled_branches[Top.i + 1] IN
       \E r \in FetchResults(retry, db[branches[b].conn]) :
          /\ branches' = [branches EXCEPT ![b].articles = r.value]
          /\ io' = OnBranch(b, r.calls)
    /\ stack' = [stack EXCEPT ![Len(stack)] =
                    [@ EXCEPT !.i = @ + 1, !.events = TRUE]]
    /\ UNCHANGED <<clientVars, retry, star_checked, pending_changes, buttons, db,
                   report>>

\* after the loop: the button comes back and the table is rebuilt
FetchFinish ==
    /\ stack # <<>>
    /\ Top.kind = "fetch"
    /\ Top.i = Len(Top.enabled_branches)
    /\ stack' = SubSeq(stack, 1, Len(stack) - 1)
    /\ buttons' = [buttons EXCEPT !.fetch_btn = TRUE]
    /\ io' = <<>>
    /\ UNCHANGED <<clientVars, retry, branches, star_checked, pending_changes, db,
                   report>>

-----------------------------------------------------------------------------
(* The middleware's POST /batch/update (holoo_api.batch_update) *)

\* updates: the columns the item sets
Columns == {"A_Name", "Sel_Price", "M_Code"}
WireField(col) ==
    CASE col = "A_Name" -> "name"
      [] col = "Sel_Price" -> "price"
      [] col = "M_Code" -> "group_code"

ItemUpdates(item) ==
    [col \in {c \in Columns : WireField(c) \in DOMAIN item} |-> item[WireField(col)]]

\* UPDATE dbo.ARTICLE SET ... WHERE A_Code = code, on one row
UpdateRow(row, updates) ==
    [row EXCEPT !.name = Get(updates, "A_Name", @),
                !.price = Get(updates, "Sel_Price", @),
                !.group_code = Get(updates, "M_Code", @)]

UpdateTable(table, code, updates) ==
    [k \in DOMAIN table |->
        IF table[k].code = code THEN UpdateRow(table[k], updates) ELSE table[k]]

HasCode(table, code) == \E k \in DOMAIN table : table[k].code = code

\* The loop over the items. faulty holds the positions of the items on which
\* cursor.execute raises.
RECURSIVE BatchLoop(_, _, _, _, _, _)
BatchLoop(items, k, table, ok, bad, faulty) ==
    IF k > Len(items)
    THEN [table |-> table, success |-> ok, failed |-> bad]
    ELSE LET item == items[k]
             code == Get(item, "code", "")
             updates == ItemUpdates(item)
         IN  IF code = ""
             THEN BatchLoop(items, k + 1, table, ok,
                            Append(bad, [code |-> "", error |-> "no code"]), faulty)
             ELSE IF DOMAIN updates = {}
             THEN BatchLoop(items, k + 1, table, ok,
                            Append(bad, [code |-> code, error |-> "no field"]), faulty)
             ELSE IF k \in faulty
             THEN BatchLoop(items, k + 1, table, ok,
                            Append(bad, [code |-> code, error |-> "db error"]), faulty)
             ELSE IF HasCode(table, code)
             THEN BatchLoop(items, k + 1, UpdateTable(table, code, updates),
                            Append(ok, [code |-> code, updated |-> DOMAIN updates]),
                            bad, faulty)
             ELSE BatchLoop(items, k + 1, table, ok,
                            Append(bad, [code |-> code, error |-> "not found"]), faulty)

\* the items the loop runs cursor.execute for: those with a code and a field
Executed(items) ==
    SelectSeq(items, LAMBDA item : Get(item, "code", "") # ""
                                   /\ DOMAIN ItemUpdates(item) # {})

\* the database operations of a handler, in order
Ops(connects, reads, writes, commits) ==
    [k \in 1..connects |-> "connect"] \o [k \in 1..reads |-> "read"]
    \o [k \in 1..writes |-> "write"] \o [k \in 1..commits |-> "commit"]

\* faulty variant: an item that fails fails the whole call, and nothing is
\* committed
holoo_batch_update_escalates(cond, items, table, faulty) ==
    IF cond = "bad_key"
    THEN [response |-> Response(401, INVALID_API_KEY), table |-> table, ops |-> <<>>]
    ELSE IF items = <<>>
    THEN [response |-> Response(400, [success |-> FALSE, error_code |-> "EMPTY_LIST"]),
          table |-> table, ops |-> <<>>]
    ELSE IF cond = "db_down"
    THEN [response |-> Response(500, [success |-> FALSE, error_code |-> "BATCH_ERROR"]),
          table |-> table, ops |-> Ops(1, 0, 0, 0)]
    ELSE LET r == BatchLoop(items, 1, table, <<>>, <<>>, faulty) IN
         IF r.failed # <<>>
         THEN [response |-> Response(500, [success |-> FALSE,
                                           error_code |-> "BATCH_ERROR"]),
               table |-> table, ops |-> Ops(1, 0, Len(Executed(items)), 0)]
         ELSE [response |->
                 Response(200, [success |-> TRUE,
                                results |-> [success |-> r.success, failed |-> r.failed],
                                summary |-> [total |-> Len(items),
                                             success_count |-> Len(r.success),
                                             failed_count |-> Len(r.failed)]]),
               table |-> r.table, ops |-> Ops(1, 0, Len(Executed(items)), 1)]

\* cond is the state the request finds the service in: "ok", "bad_key" (the
\* X-API-Key differs, verify_api_key) or "db_down" (get_db_connection raises).
\* The answer, the table left behind and the database operations made.
holoo_batch_update(cond, items, table, faulty) ==
    IF cond = "bad_key"
    THEN [response |-> Response(401, INVALID_API_KEY), table |-> table, ops |-> <<>>]
    ELSE IF items = <<>>
    THEN [response |-> Response(400, [success |-> FALSE, error_code |-> "EMPTY_LIST"]),
          table |-> table, ops |-> <<>>]
    ELSE IF cond = "db_down"
    THEN [response |-> Response(500, [success |-> FALSE, error_code |-> "BATCH_ERROR"]),
          table |-> table, ops |-> Ops(1, 0, 0, 0)]
    ELSE LET r == BatchLoop(items, 1, table, <<>>, <<>>, faulty) IN
         [response |->
            Response(200, [success |-> TRUE,
                           results |-> [success |-> r.success, failed |-> r.failed],
                           summary |-> [total |-> Len(items),
                                        success_count |-> Len(r.success),
                                        failed_count |-> Len(r.failed)]]),
          table |-> r.table, ops |-> Ops(1, 0, Len(Executed(items)), 1)]

ServiceConds == {"ok", "bad_key", "db_down"}
Faults == {{}, {1}}

-----------------------------------------------------------------------------
(* The middleware's routes (holoo_api.py) *)

API_KEY == "holoo_api_secret_key_2024"
MAX_RETRIES == 3

\* request.headers.get('X-API-Key') of a request without the header
NoHeader == "<None>"

OpenEndpoints == {"/health", "/ping"}
AuthEndpoints ==
    {"/check/db", "/articles", "/article/<code>", "/article/<code>/update",
     "/groups", "/subgroups", "/group/add", "/group/<code>/update", "/stats",
     "/batch/update"}

Unchanged(status_code, body, table, ops) ==
    [response |-> Response(status_code, body), table |-> table, ops |-> ops]

Failed(error_code) == [success |-> FALSE, error_code |-> error_code]

\* the codes of M_GROUP; its rows are not tracked
Groups == {"10", "20"}

\* execute_with_retry(func) on a database that cannot be reached: func is tried
\* MAX_RETRIES times, each try opening a connection, and the last error is raised
Unreachable(error_code, table) ==
    Unchanged(500, Failed(error_code), table, Ops(MAX_RETRIES, 0, 0, 0))

check_database(db_up, table) ==
    IF db_up
    THEN Unchanged(200, DbStatus(TRUE, "DB_CONNECTED"), table, Ops(1, 1, 0, 0))
    ELSE Unchanged(500, DbStatus(FALSE, "DB_CONNECTION_ERROR"), table, Ops(1, 0, 0, 0))

holoo_get_articles(db_up, table) ==
    IF db_up
    THEN Unchanged(200, [success |-> TRUE, data |-> table, total |-> Len(table),
                         count |-> Len(table)], table, Ops(1, 2, 0, 0))
    ELSE Unreachable("FETCH_ERROR", table)

holoo_get_article(db_up, code, table) ==
    IF ~db_up THEN Unreachable("FETCH_ERROR", table)
    ELSE IF HasCode(table, code)
    THEN Unchanged(200, [success |-> TRUE,
                         data |-> table[CHOOSE k \in DOMAIN table : table[k].code = code]],
                   table, Ops(1, 1, 0, 0))
    ELSE Unchanged(404, Failed("NOT_FOUND"), table, Ops(1, 1, 0, 0))

holoo_update_article(db_up, code, data, table) ==
    LET updates == ItemUpdates(data) IN
    IF DOMAIN updates = {} THEN Unchanged(400, Failed("NO_FIELDS"), table, <<>>)
    ELSE IF ~db_up THEN Unreachable("UPDATE_ERROR", table)
    ELSE IF ~HasCode(table, code)
    THEN Unchanged(404, Failed("NOT_FOUND"), table, Ops(1, 1, 0, 0))
    ELSE [response |-> Response(200, [success |-> TRUE, code |-> code,
                                      updated_fields |-> DOMAIN updates,
                                      affected_rows |-> 1]),
          table |-> UpdateTable(table, code, updates),
          ops |-> Ops(1, 1, 1, 1)]

\* get_groups, get_subgroups and get_stats only read
holoo_read_only(db_up, reads, table) ==
    IF db_up THEN Unchanged(200, [success |-> TRUE], table, Ops(1, reads, 0, 0))
    ELSE Unreachable("FETCH_ERROR", table)

add_group(db_up, data, table) ==
    LET name == Get(data, "name", "")
        code == Get(data, "code", "")
    IN  IF name = "" THEN Unchanged(400, Failed("NAME_REQUIRED"), table, <<>>)
        ELSE IF ~db_up THEN Unreachable("ADD_ERROR", table)
        ELSE IF code \in Groups
        THEN Unchanged(400, Failed("ADD_ERROR"), table, Ops(1, 1, 0, 0))
        ELSE Unchanged(200, [success |-> TRUE, name |-> name], table,
                       Ops(1, IF code = "" THEN 2 ELSE 1, 1, 1))

update_group(db_up, code, data, table) ==
    LET name == Get(data, "name", "") IN
    IF name = "" THEN Unchanged(400, Failed("NAME_REQUIRED"), table, <<>>)
    ELSE IF ~db_up THEN Unreachable("UPDATE_ERROR", table)
    ELSE IF code \in Groups
    THEN Unchanged(200, [success |-> TRUE, code |-> code, name |-> name], table,
                   Ops(1, 0, 1, 1))
    ELSE Unchanged(404, Failed("NOT_FOUND"), table, Ops(1, 0, 1, 1))

\* the handler of an authenticated route, run on the request
Handler(req, table) ==
    LET e == req.endpoint
        data == req.data
    IN  IF e = "/check/db" THEN check_database(req.db_up, table)
        ELSE IF e = "/articles" THEN holoo_get_articles(req.db_up, table)
        ELSE IF e = "/article/<code>" THEN holoo_get_article(req.db_up, req.code, table)
        ELSE IF e = "/article/<code>/update"
             THEN holoo_update_article(req.db_up, req.code, data, table)
        ELSE IF e = "/groups" THEN holoo_read_only(req.db_up, 1, table)
        ELSE IF e = "/subgroups" THEN holoo_read_only(req.db_up, 1, table)
        ELSE IF e = "/stats" THEN holoo_read_only(req.db_up, 6, table)
        ELSE IF e = "/group/add" THEN add_group(req.db_up, data, table)
        ELSE IF e = "/group/<code>/update"
             THEN update_group(req.db_up, req.code, data, table)
        ELSE holoo_batch_update(IF req.db_up THEN "ok" ELSE "db_down",
                                Get(data, "items", <<>>), table, req.faulty)

\* faulty variant: a request without the header is let through
verify_api_key_header_optional(api_key, table, served) ==
    IF api_key # API_KEY /\ api_key # NoHeader
    THEN Unchanged(401, INVALID_API_KEY, table, <<>>)
    ELSE served

\* the decorator: served is what the handler does if it is run
verify_api_key(api_key, table, served) ==
    IF api_key # API_KEY
    THEN Unchanged(401, INVALID_API_KEY, table, <<>>)
    ELSE served

\* the answer of the service to a request on a database holding table
Serve(req, table) ==
    IF req.endpoint = "/health"
    THEN Unchanged(200, [success |-> TRUE, status |-> "running"], table, <<>>)
    ELSE IF req.endpoint = "/ping"
    THEN Unchanged(200, [success |-> TRUE, message |-> "pong"], table, <<>>)
    ELSE verify_api_key(req.api_key, table, Handler(req, table))

-----------------------------------------------------------------------------
(* Dispatch cycle (apply_changes, do_apply_changes) *)

Change(code, branch, field, new_value) ==
    [code |-> code, branch |-> branch, field |-> field, old_value |-> 100,
     new_value |-> new_value]

\* faulty variant: a group per run of adjacent changes of one branch
RECURSIVE GroupByRuns(_, _)
GroupByRuns(changes, groups) ==
    IF changes = <<>> THEN groups
    ELSE LET change == Head(changes)
             n == Len(groups)
         IN  IF n > 0 /\ groups[n].branch_name = change.branch
             THEN GroupByRuns(Tail(changes),
                     [groups EXCEPT ![n].changes = Append(@, change)])
             ELSE GroupByRuns(Tail(changes),
                     Append(groups, [branch_name |-> change.branch,
                                     changes |-> <<change>>]))

\* changes_by_branch: the groups in the order their branch names first appear
RECURSIVE GroupByBranch(_, _)
GroupByBranch(changes, groups) ==
    IF changes = <<>> THEN groups
    ELSE LET change == Head(changes)
             branch_name == change.branch
             with == IF \E g \in DOMAIN groups : groups[g].branch_name = branch_name
                     THEN groups
                     ELSE Append(groups, [branch_name |-> branch_name,
                                          changes |-> <<>>])
         IN  GroupByBranch(Tail(changes),
                [g \in DOMAIN with |->
                    IF with[g].branch_name = branch_name
                    THEN [with[g] EXCEPT !.changes = Append(@, change)]
                    ELSE with[g]])

changes_by_branch(changes) == GroupByBranch(changes, <<>>)

\* next((b for b in self.branches if b.name == branch_name), None); 0 is None
FindBranch(bs, branch_name) ==
    IF \E i \in DOMAIN bs : bs[i].name = branch_name
    THEN CHOOSE i \in DOMAIN bs :
            /\ bs[i].name = branch_name
            /\ \A j \in DOMAIN bs : bs[j].name = branch_name => i <= j
    ELSE 0

\* the update payload of one change
Item(change) ==
    LET field == change.field
        base == [code |-> change.code]
    IN  IF field = "qeymat" THEN base @@ [price |-> change.new_value]
        ELSE IF field = "nam" THEN base @@ [name |-> change.new_value]
        ELSE IF field = "goruh" THEN base @@ [group_code |-> change.new_value]
        ELSE base

Items(changes) == [k \in DOMAIN changes |-> Item(changes[k])]

\* What client.batch_update(items) can end in on a database holding table: the
\* dict returned, the calls made and the table afterwards. An attempt that fails
\* leaves the table as it was.
BatchResults(n, items, table) ==
    { LET served == holoo_batch_update(cond, items, table, faulty)
          run == BatchUpdateRun(n, Append(errs, served.response))
      IN  [value |-> run.value,
           calls |-> NetCalls(0, run.calls),
           table |-> IF Len(errs) < n THEN served.table ELSE table] :
        errs \in UNION {SeqsOfLen(AttemptErrors, k) : k \in 0..MaxRetry},
        cond \in ServiceConds, faulty \in Faults }

\* The locals of do_apply_changes: the groups, the loop index, the tallies and
\* result, which holds the answer of the last batch_update once one was made.
Unbound == [unbound |-> TRUE]

ApplyFrame(groups) ==
    [kind |-> "apply", groups |-> groups, i |-> 0, success_count |-> 0,
     fail_count |-> 0, result |-> Unbound, events |-> FALSE, trailing |-> FALSE]

\* apply_changes with the confirmation dialog accepted, and do_apply_changes up
\* to its loop over the groups
ApplyStart ==
    /\ EventsOpen
    /\ buttons.apply_btn
    /\ pending_changes # <<>>
    /\ buttons' = [buttons EXCEPT !.apply_btn = FALSE]
    /\ stack' = Append(stack, ApplyFrame(changes_by_branch(pending_changes)))
    /\ io' = <<>>
    /\ UNCHANGED <<clientVars, retry, branches, star_checked, pending_changes, db,
                   report>>

\* faulty variant: a group that is not sent is left out of the tallies
TallySkippedUncounted(frame, changes) ==
    [frame EXCEPT !.i = @ + 1, !.events = FALSE]

\* the tallies after the group of one iteration: a group that is not sent
TallySkipped(frame, changes) ==
    [frame EXCEPT !.i = @ + 1, !.fail_count = @ + Len(changes), !.events = FALSE]

\* faulty variant: a call that reports success counts every item as done
TallySentAllDone(frame, items, result) ==
    IF Get(result, "success", FALSE)
    THEN [frame EXCEPT !.i = @ + 1, !.success_count = @ + Len(items),
                       !.result = result, !.events = TRUE]
    ELSE [frame EXCEPT !.i = @ + 1, !.fail_count = @ + Len(items),
                       !.result = result, !.events = TRUE]

\* a group that was sent, result being what batch_update returned
TallySent(frame, items, result) ==
    IF Get(result, "success", FALSE)
    THEN LET summary == Get(result, "summary", <<>>) IN
         [frame EXCEPT !.i = @ + 1,
                       !.success_count = @ + Get(summary, "success_count", 0),
                       !.fail_count = @ + Get(summary, "failed_count", 0),
                       !.result = result,
                       !.events = TRUE]
    ELSE [frame EXCEPT !.i = @ + 1, !.fail_count = @ + Len(items),
                       !.result = result, !.events = TRUE]

\* faulty variant: only a branch known to be OFFLINE is held back
DispatchableUnlessOffline(bs, branch_name) ==
    LET b == FindBranch(bs, branch_name) IN
    IF b = 0 THEN FALSE ELSE bs[b].status # OFFLINE

\* the branch of a group is dispatched to: found and CONNECTED
Dispatchable(bs, branch_name) ==
    LET b == FindBranch(bs, branch_name) IN
    IF b = 0 THEN FALSE ELSE bs[b].status = CONNECTED

\* one iteration of the loop over the groups
ApplyStep ==
    /\ stack # <<>>
    /\ Top.kind = "apply"
    /\ Top.i < Len(Top.groups)
    /\ LET group == Top.groups[Top.i + 1]
           b == FindBranch(branches, group.branch_name)
       IN  IF ~Dispatchable(branches, group.branch_name)
           THEN /\ stack' = [stack EXCEPT ![Len(stack)] =
                                TallySkipped(@, group.changes)]
                /\ io' = <<>>
                /\ UNCHANGED db
           ELSE LET items == Items(group.changes) IN
                \E r \in BatchResults(retry, items, db[branches[b].conn]) :
                    /\ stack' = [stack EXCEPT ![Len(stack)] =
                                    TallySent(@, items, r.value)]
                    /\ io' = OnBranch(b, r.calls)
                    /\ db' = [db EXCEPT ![branches[b].conn] = r.table]
    /\ UNCHANGED <<clientVars, retry, branches, star_checked, pending_changes,
                   buttons, report>>

\* faulty variant: the changes are kept when some of them failed
ledger_kept_on_failure(changes, frame) ==
    IF frame.fail_count > 0 THEN changes ELSE <<>>

\* self.pending_changes = [] after the loop, whatever the tallies of the frame
ledger_after_cycle(changes, frame) == <<>>

\* after the loop: the ledger is dropped, the tallies are shown, and
\* fetch_all_data runs up to its loop
ApplyFinish ==
    /\ stack # <<>>
    /\ Top.kind = "apply"
    /\ Top.i = Len(Top.groups)
    /\ pending_changes' = ledger_after_cycle(pending_changes, Top)
    /\ report' = [done |-> TRUE, success_count |-> Top.success_count,
                  fail_count |-> Top.fail_count]
    /\ LET list == enabled_branches(branches)
           outer == SubSeq(stack, 1, Len(stack) - 1)
       IN  IF list = <<>>
           THEN /\ stack' = outer
                /\ buttons' = [buttons EXCEPT !.apply_btn = FALSE]
           ELSE /\ stack' = Append(outer, FetchFrame(list, TRUE))
                /\ buttons' = [buttons EXCEPT !.apply_btn = FALSE,
                                              !.fetch_btn = FALSE]
    /\ io' = <<>>
    /\ UNCHANGED <<clientVars, retry, branches, star_checked, db>>

\* a click on the apply button: a disabled button emits no signal, and
\* apply_changes returns at once on an empty ledger
ApplyClick ==
    /\ EventsOpen
    /\ IF buttons.apply_btn /\ pending_changes # <<>>
       THEN ApplyStart
       ELSE UNCHANGED vars

NextWindow ==
    \/ ApplyClick
    \/ \E i \in Indices : StarClick(i)
    \/ \E i \in Indices : EnabledToggle(i)
    \/ CheckAllBranches
    \/ FetchClick
    \/ FetchStep
    \/ FetchFinish

Spec == Init /\ [][NextWindow]_vars

-----------------------------------------------------------------------------
(* SpecApply: one dispatch cycle on a drawn ledger and drawn branch states *)

MaxChanges == 2

\* the edits the ledger is drawn from: a price that exists, a code the database
\* does not hold, a field without a wire name, and a branch that is not configured
Edits ==
    { Change("1001", "A", "qeymat", 200),
      Change("9999", "A", "qeymat", 200),
      Change("1001", "A", "mojudi", 5),
      Change("1001", "B", "nam", "Z"),
      Change("1001", "N", "qeymat", 200) }

\* ledgers in which the changes of one branch are not adjacent
Interleaved ==
    { <<Change("1001", "A", "qeymat", 200), Change("1001", "B", "nam", "Z"),
        Change("1001", "A", "qeymat", 300)>>,
      <<Change("1001", "B", "nam", "Z"), Change("9999", "A", "qeymat", 200),
        Change("1001", "B", "nam", "Y")>>,
      <<Change("1001", "N", "qeymat", 200), Change("1001", "A", "mojudi", 5),
        Change("1001", "N", "qeymat", 200)>> }

Ledgers == UNION {SeqsOfLen(Edits, k) : k \in 1..MaxChanges} \cup Interleaved

ApplyConfig == <<BranchConfig("A", "c1"), BranchConfig("B", "c2")>>

InitApply ==
    /\ ClientIdle
    /\ \E n \in {DEFAULT_RETRY}, ledger \in Ledgers,
          status \in [1..Len(ApplyConfig) -> BranchStatus],
          enabled \in [1..Len(ApplyConfig) -> BOOLEAN] :
        /\ retry = n
        /\ branches = [i \in 1..Len(ApplyConfig) |->
                         [load_config(ApplyConfig)[i] EXCEPT
                             !.status = status[i], !.enabled = enabled[i]]]
        /\ star_checked = [i \in 1..Len(ApplyConfig) |-> i = 1]
        /\ pending_changes = ledger
        /\ buttons = [apply_btn |-> TRUE, fetch_btn |-> TRUE]
        /\ stack = <<>>
        /\ io = <<>>
        /\ db = DbInit
        /\ report = NoReport

\* The cycle and the fetch pass that ends it, with the user events their
\* processEvents calls deliver that change what the cycle reads: a health pass
\* and the enabled boxes. The stars and the fetch button are left to Spec.
NextApply ==
    \/ ApplyStart
    \/ ApplyStep
    \/ ApplyFinish
    \/ FetchStep
    \/ FetchFinish
    \/ stack # <<>> /\ CheckAllBranches
    \/ stack # <<>> /\ \E i \in Indices : EnabledToggle(i)

SpecApply == InitApply /\ [][NextApply]_vars

-----------------------------------------------------------------------------
(* Python values of the snapshots the table is built from *)

\* update_table tells the JSON types apart (str() of an int and of a float
\* differ), so the values it reads carry their type: an int, a float given in
\* thousandths (100001 is 100.001, not negative, third decimal never 5), a str.
PyInt(n) == [int |-> n]
PyFloat(m) == [float |-> m]
PyStr(s) == [str |-> s]

IsInt(v) == "int" \in DOMAIN v
IsFloat(v) == "float" \in DOMAIN v
IsStr(v) == "str" \in DOMAIN v

\* bool(value)
Truthy(v) ==
    IF IsInt(v) THEN v.int # 0
    ELSE IF IsFloat(v) THEN v.float # 0
    ELSE v.str # ""

\* the decimals of a float in thousandths, without trailing zeros
Decimals(frac) ==
    IF frac % 100 = 0 THEN ToString(frac \div 100)
    ELSE IF frac % 10 = 0
         THEN ToString(frac \div 100) \o ToString((frac \div 10) % 10)
         ELSE ToString(frac \div 100) \o ToString((frac \div 10) % 10)
              \o ToString(frac % 10)

\* str(value): the repr of a float always shows a decimal
PyToStr(v) ==
    IF IsInt(v) THEN ToString(v.int)
    ELSE IF IsFloat(v)
         THEN ToString(v.float \div 1000) \o "." \o Decimals(v.float % 1000)
         ELSE v.str

\* "{:,.0f}".format(n): groups of three digits
RECURSIVE Commas(_)
Commas(n) ==
    IF n < 1000 THEN ToString(n)
    ELSE LET low == n % 1000 IN
         Commas(n \div 1000) \o ","
         \o ToString(low \div 100) \o ToString((low \div 10) % 10)
         \o ToString(low % 10)

\* "{:,.2f}".format(num).rstrip('0').rstrip('.'), num in thousandths
TwoDecimals(m) ==
    LET h == (m + 5) \div 10
        whole == h \div 100
        cents == h % 100
    IN  IF cents = 0 THEN Commas(whole)
        ELSE IF cents % 10 = 0
             THEN Commas(whole) \o "." \o ToString(cents \div 10)
             ELSE Commas(whole) \o "." \o ToString(cents \div 10)
                  \o ToString(cents % 10)

\* format_price; float() of a str of the model raises, so the str comes back
format_price(v) ==
    IF IsInt(v) THEN (IF v.int = 0 THEN "" ELSE Commas(v.int))
    ELSE IF IsFloat(v)
         THEN (IF v.float = 0 THEN ""
               ELSE IF v.float % 1000 = 0 THEN Commas(v.float \div 1000)
               ELSE TwoDecimals(v.float))
         ELSE v.str

\* format_number
format_number(v) ==
    IF IsInt(v) THEN (IF v.int = 0 THEN "" ELSE ToString(v.int))
    ELSE IF IsFloat(v)
         THEN (IF v.float = 0 THEN ""
               ELSE IF v.float % 1000 = 0 THEN ToString(v.float \div 1000)
               ELSE PyToStr(v))
         ELSE v.str

-----------------------------------------------------------------------------
(* Reconciliation: MainWindow.update_table *)

\* the items of compare_combo
CompareTypes == {"nam", "qeymat", "goruh", "mojudi"}

EmptyDict == <<>>

\* [b for b in self.branches if b.enabled], as indices
RECURSIVE EnabledFrom(_, _)
EnabledFrom(bs, i) ==
    IF i > Len(bs) THEN <<>>
    ELSE (IF bs[i].enabled THEN <<i>> ELSE <<>>) \o EnabledFrom(bs, i + 1)

\* what all_articles[code]["branches"][branch.name] is set to
BranchData(article) ==
    [name |-> Get(article, "name", PyStr("")),
     price |-> Get(article, "price", PyInt(0)),
     group_code |-> Get(article, "group_code", PyStr("")),
     group_name |-> Get(article, "group_name", PyStr("")),
     stock1 |-> Get(article, "stock1", PyInt(0)),
     stock2 |-> Get(article, "stock2", PyInt(0))]

\* A dict is a sequence of [key, value] in insertion order; d[key] = value keeps
\* the place of a key that is already there.
DictHas(d, key) == \E k \in DOMAIN d : d[k].key = key
DictGet(d, key, default) ==
    IF DictHas(d, key) THEN d[CHOOSE k \in DOMAIN d : d[k].key = key].value
    ELSE default
DictSet(d, key, value) ==
    IF DictHas(d, key)
    THEN [k \in DOMAIN d |-> IF d[k].key = key THEN [key |-> key, value |-> value]
                                               ELSE d[k]]
    ELSE Append(d, [key |-> key, value |-> value])

\* the body of the inner loop: one article of one branch
PutArticle(all, branch_name, article) ==
    LET code == Get(article, "code", "")
        entry == DictGet(all, code, [code |-> code, branches |-> <<>>])
    IN  DictSet(all, code,
                [entry EXCEPT !.branches = DictSet(@, branch_name, BranchData(article))])

RECURSIVE CollectSnapshot(_, _, _, _)
CollectSnapshot(all, branch_name, articles, k) ==
    IF k > Len(articles) THEN all
    ELSE CollectSnapshot(PutArticle(all, branch_name, articles[k]), branch_name,
                         articles, k + 1)

\* faulty variant: only the codes of the first enabled branch are collected
RECURSIVE CollectFirstBranch(_, _, _, _)
CollectFirstBranch(all, bs, list, k) ==
    IF k > Len(list) \/ k > 1 THEN all
    ELSE CollectFirstBranch(
            CollectSnapshot(all, bs[list[k]].name, bs[list[k]].articles, 1),
            bs, list, k + 1)

\* the outer loop: the enabled branches in registry order
RECURSIVE CollectArticles(_, _, _, _)
CollectArticles(all, bs, list, k) ==
    IF k > Len(list) THEN all
    ELSE CollectArticles(
            CollectSnapshot(all, bs[list[k]].name, bs[list[k]].articles, 1),
            bs, list, k + 1)

all_articles(bs) == CollectArticles(<<>>, bs, EnabledFrom(bs, 1), 1)

\* next((b for b in self.branches if b.is_reference and b.enabled), None); 0 is None
ref_branch(bs) ==
    IF \E i \in DOMAIN bs : bs[i].is_reference /\ bs[i].enabled
    THEN CHOOSE i \in DOMAIN bs :
            /\ bs[i].is_reference /\ bs[i].enabled
            /\ \A j \in DOMAIN bs : (bs[j].is_reference /\ bs[j].enabled) => i <= j
    ELSE 0

\* faulty variant: the first branch that has the code names it, starred or not
RefNameFirst(bs, data) ==
    IF data.branches # <<>> THEN data.branches[1].value.name ELSE PyStr("")

\* faulty variant: without a reference entry the last branch that has the code
\* names it
RefNameLast(bs, data) ==
    LET ref == ref_branch(bs) IN
    IF ref # 0 /\ DictHas(data.branches, bs[ref].name)
    THEN DictGet(data.branches, bs[ref].name, EmptyDict).name
    ELSE IF data.branches # <<>> THEN data.branches[Len(data.branches)].value.name
    ELSE PyStr("")

\* the name shown for a code: of the reference branch if it has the code, else
\* of the first branch that has it
RefName(bs, data) ==
    LET ref == ref_branch(bs) IN
    IF ref # 0 /\ DictHas(data.branches, bs[ref].name)
    THEN DictGet(data.branches, bs[ref].name, EmptyDict).name
    ELSE IF data.branches # <<>> THEN data.branches[1].value.name
    ELSE PyStr("")

\* the value of one branch in the dimension compared
DimensionValue(branch_data, compare_type) ==
    IF compare_type = "nam" THEN Get(branch_data, "name", PyStr(""))
    ELSE IF compare_type = "qeymat" THEN Get(branch_data, "price", PyInt(0))
    ELSE IF compare_type = "goruh"
         THEN (IF Truthy(Get(branch_data, "group_name", PyStr("")))
               THEN Get(branch_data, "group_name", PyStr(""))
               ELSE Get(branch_data, "group_code", PyStr("")))
    ELSE IF compare_type = "mojudi" THEN Get(branch_data, "stock1", PyInt(0))
    ELSE PyStr("")

Values(bs, list, data, compare_type) ==
    [k \in DOMAIN list |->
        DimensionValue(DictGet(data.branches, bs[list[k]].name, EmptyDict),
                       compare_type)]

None == [none |-> TRUE]

\* faulty variant: every value that differs from the first one is a difference,
\* an empty one too
RECURSIVE DiffLoopCountsEmpty(_, _, _, _)
DiffLoopCountsEmpty(values, k, first_value, has_diff) ==
    IF k > Len(values) THEN has_diff
    ELSE LET value == values[k] IN
         IF first_value = None /\ Truthy(value)
         THEN DiffLoopCountsEmpty(values, k + 1, value, has_diff)
         ELSE IF first_value # None /\ PyToStr(value) # PyToStr(first_value)
         THEN DiffLoopCountsEmpty(values, k + 1, first_value, TRUE)
         ELSE DiffLoopCountsEmpty(values, k + 1, first_value, has_diff)

\* first_value and has_diff over the values of a row
RECURSIVE DiffLoop(_, _, _, _)
DiffLoop(values, k, first_value, has_diff) ==
    IF k > Len(values) THEN has_diff
    ELSE LET value == values[k] IN
         IF first_value = None /\ Truthy(value)
         THEN DiffLoop(values, k + 1, value, has_diff)
         ELSE IF /\ first_value # None
                 /\ Truthy(value)
                 /\ PyToStr(value) # PyToStr(first_value)
         THEN DiffLoop(values, k + 1, first_value, TRUE)
         ELSE DiffLoop(values, k + 1, first_value, has_diff)

RowData(bs, list, data, compare_type) ==
    LET values == Values(bs, list, data, compare_type) IN
    [code |-> data.code, ref_name |-> RefName(bs, data), values |-> values,
     has_diff |-> DiffLoop(values, 1, None, FALSE)]

\* faulty variant: the filter keeps the rows without a difference
KeepRowInverted(diff_only, row) == ~(diff_only /\ row.has_diff)

\* if diff_only and not has_diff: continue
KeepRow(diff_only, row) == ~(diff_only /\ ~row.has_diff)

rows_data(bs, compare_type, diff_only) ==
    LET all == all_articles(bs)
        list == EnabledFrom(bs, 1)
        rows == [k \in DOMAIN all |-> RowData(bs, list, all[k].value, compare_type)]
    IN  SelectSeq(rows, LAMBDA row : KeepRow(diff_only, row))

Min(a, b) == IF a < b THEN a ELSE b

\* faulty variant: the pages overlap by one row
display_data_overlap(rows, items_per_page, current_page) ==
    IF items_per_page > 0
    THEN LET start == (current_page - 1) * (items_per_page - 1)
             end == start + items_per_page
         IN  SubSeq(rows, start + 1, Min(end, Len(rows)))
    ELSE rows

\* rows_data[start:end], or all rows when items_per_page is 0
display_data(rows, items_per_page, current_page) ==
    IF items_per_page > 0
    THEN LET start == (current_page - 1) * items_per_page
             end == start + items_per_page
         IN  SubSeq(rows, start + 1, Min(end, Len(rows)))
    ELSE rows

\* math.ceil(total_items / items_per_page)
Ceil(a, b) == (a + b - 1) \div b

get_total_pages(total_items, items_per_page) ==
    IF items_per_page = 0 THEN 1
    ELSE LET pages == Ceil(total_items, items_per_page) IN
         IF pages > 1 THEN pages ELSE 1

\* the text of a cell
DisplayValue(value, compare_type) ==
    IF compare_type = "qeymat" THEN format_price(value)
    ELSE IF compare_type = "mojudi" THEN format_number(value)
    ELSE IF Truthy(value) THEN PyToStr(value) ELSE ""

\* update_table: self.all_articles, the rows, total_items, the rows of the page
\* and their cells
update_table(bs, compare_type, diff_only, items_per_page, current_page) ==
    LET rows == rows_data(bs, compare_type, diff_only)
        page == display_data(rows, items_per_page, current_page)
    IN  [op |-> "update_table",
         all_articles |-> all_articles(bs),
         rows_data |-> rows,
         total_items |-> Len(rows),
         total_pages |-> get_total_pages(Len(rows), items_per_page),
         display_data |-> page,
         cells |-> [r \in DOMAIN page |->
                      [k \in DOMAIN page[r].values |->
                          DisplayValue(page[r].values[k], compare_type)]]]

-----------------------------------------------------------------------------
(* SpecTable: update_table called on drawn snapshots, flags and view *)

MaxPageSize == 2
MaxPage == 3

\* one article of a snapshot, with typed values
TableArticle(code, name, price, stock1, group_code, group_name) ==
    [code |-> code, name |-> PyStr(name), price |-> price, stock1 |-> stock1,
     stock2 |-> PyInt(0), group_code |-> PyStr(group_code),
     group_name |-> PyStr(group_name)]

\* The snapshots each branch is drawn with: 1001 as an int and as a float of the
\* same number; 2002 with two prices that round to the same two decimals; 3003
\* without price or stock.
TableSnapshots ==
    LET a1 == TableArticle("1001", "X", PyInt(100), PyInt(5), "10", "G")
        a2 == TableArticle("1001", "Y", PyFloat(100000), PyFloat(5000), "10", "")
        a3 == TableArticle("1001", "X", PyInt(1500), PyInt(7), "10", "G")
        b1 == TableArticle("2002", "X", PyFloat(100001), PyFloat(2500), "20", "H")
        b2 == TableArticle("2002", "X", PyFloat(100002), PyInt(0), "20", "H")
        c1 == TableArticle("3003", "Z", PyInt(0), PyInt(0), "", "")
    IN  << {<<>>, <<a1>>, <<a1, b1>>},
           {<<>>, <<a2>>, <<b2, a3>>},
           {<<>>, <<a2, c1>>, <<c1, b1>>} >>

TableConfig ==
    <<BranchConfig("A", "c1"), BranchConfig("B", "c2"), BranchConfig("C", "c3")>>

TableIndices == 1..Len(TableConfig)

\* the registries the table is built from: any snapshots, any enabled boxes, no
\* star or one
TableBranches ==
    { [i \in TableIndices |->
          [Branch(TableConfig[i], i = ref) EXCEPT
              !.status = CONNECTED, !.enabled = enabled[i],
              !.articles = articles[i]]] :
        ref \in 0..Len(TableConfig),
        enabled \in [TableIndices -> BOOLEAN],
        articles \in [TableIndices -> UNION Range(TableSnapshots)] }

\* items_per_page stands for the sizes of page_size_combo (0 is "all")
InitTable ==
    /\ c_in \in { [branches |-> bs, compare_type |-> ct, diff_only |-> d,
                   items_per_page |-> size, current_page |-> page] :
                    bs \in { b \in TableBranches :
                               \A i \in TableIndices :
                                   b[i].articles \in TableSnapshots[i] },
                    ct \in CompareTypes, d \in BOOLEAN,
                    size \in 0..MaxPageSize, page \in 1..MaxPage }
    /\ c_out = NotCalled
    /\ WindowIdle

CallUpdateTable ==
    /\ c_out = NotCalled
    /\ c_out' = update_table(c_in.branches, c_in.compare_type, c_in.diff_only,
                             c_in.items_per_page, c_in.current_page)
    /\ UNCHANGED c_in
    /\ UNCHANGED uiVars

NextTable == CallUpdateTable

SpecTable == InitTable /\ [][NextTable]_vars

-----------------------------------------------------------------------------
(* SpecMerge: update_table on a registry in which two branches share a name *)

\* load_config takes the names as the file gives them: the first two entries
\* are two databases under one name
MergeConfig ==
    <<BranchConfig("A", "c1"), BranchConfig("A", "c2"), BranchConfig("B", "c3")>>

MergeBranches ==
    { [i \in TableIndices |->
          [Branch(MergeConfig[i], i = ref) EXCEPT
              !.status = CONNECTED, !.enabled = enabled[i],
              !.articles = articles[i]]] :
        ref \in 0..Len(MergeConfig),
        enabled \in [TableIndices -> BOOLEAN],
        articles \in [TableIndices -> UNION Range(TableSnapshots)] }

InitMerge ==
    /\ c_in \in { [branches |-> bs, compare_type |-> ct, diff_only |-> d,
                   items_per_page |-> 0, current_page |-> 1] :
                    bs \in { b \in MergeBranches :
                               \A i \in TableIndices :
                                   b[i].articles \in TableSnapshots[i] },
                    ct \in CompareTypes, d \in BOOLEAN }
    /\ c_out = NotCalled
    /\ WindowIdle

SpecMerge == InitMerge /\ [][NextTable]_vars

-----------------------------------------------------------------------------
(* SpecPaging: the paging controls of the main window on a fetched registry *)

Max(a, b) == IF a > b THEN a ELSE b

\* The view as MainWindow.__init__ and setup_ui leave it: no page size, page 1,
\* an empty table, and a spin box from 1 to the 99 a QSpinBox starts with. The
\* first and previous buttons are back_btn, the next and last ones forward_btn.
ViewStart ==
    [op |-> "init", compare_type |-> "nam", diff_only |-> FALSE,
     current_page |-> 1, items_per_page |-> 0, total_items |-> 0,
     page_spin |-> 1, page_spin_max |-> 99,
     back_btn |-> TRUE, forward_btn |-> TRUE, table |-> <<>>]

\* update_table on the view. display_data is cut for the current_page the call
\* starts with. update_paging_controls then sets the maximum of the spin box: a
\* value above it is lowered, valueChanged is emitted and on_page_changed moves
\* current_page and runs update_table to its end, before the outer call sets the
\* buttons and fills the table with the display_data it had cut.
ViewUpdateTable(v, bs) ==
    CHOOSE w \in
        { LET total == r.total_pages
              page == IF v.page_spin > total /\ total # v.current_page
                      THEN total ELSE v.current_page
          IN  [v EXCEPT !.total_items = r.total_items,
                        !.page_spin = Min(@, total),
                        !.page_spin_max = total,
                        !.current_page = page,
                        !.back_btn = page > 1,
                        !.forward_btn = page < total,
                        !.table = r.display_data] :
            r \in {update_table(bs, v.compare_type, v.diff_only, v.items_per_page,
                                v.current_page)} } : TRUE

\* the slot of page_spin.valueChanged
on_page_changed(v, page, bs) ==
    IF page # v.current_page
    THEN ViewUpdateTable([v EXCEPT !.current_page = page], bs)
    ELSE v

\* QSpinBox.setValue: the value is kept within the range, and valueChanged is
\* emitted only if it changes
page_spin_setValue(v, value, bs) ==
    LET bounded == Min(Max(value, 1), v.page_spin_max) IN
    IF bounded = v.page_spin THEN v
    ELSE on_page_changed([v EXCEPT !.page_spin = bounded], bounded, bs)

go_first_page(v, bs) ==
    page_spin_setValue([v EXCEPT !.current_page = 1], 1, bs)

go_prev_page(v, bs) ==
    IF v.current_page > 1
    THEN page_spin_setValue([v EXCEPT !.current_page = @ - 1], v.current_page - 1, bs)
    ELSE v

go_next_page(v, bs) ==
    LET total == get_total_pages(v.total_items, v.items_per_page) IN
    IF v.current_page < total
    THEN page_spin_setValue([v EXCEPT !.current_page = @ + 1], v.current_page + 1, bs)
    ELSE v

go_last_page(v, bs) ==
    LET total == get_total_pages(v.total_items, v.items_per_page) IN
    page_spin_setValue([v EXCEPT !.current_page = total], total, bs)

on_page_size_changed(v, size, bs) ==
    ViewUpdateTable([v EXCEPT !.items_per_page = size, !.current_page = 1], bs)

\* the registries the pages are cut from: every branch enabled and fetched, the
\* star on the first
PagingRegistries ==
    { b \in TableBranches :
        \A i \in TableIndices :
            /\ b[i].enabled
            /\ b[i].is_reference = (i = 1)
            /\ b[i].articles \in TableSnapshots[i] }

\* the view after the fetch pass that filled the snapshots: fetch_all_data sets
\* current_page to 1 and calls update_table
InitPaging ==
    /\ c_in \in {[branches |-> bs] : bs \in PagingRegistries}
    /\ c_out = ViewUpdateTable(ViewStart, c_in.branches)
    /\ WindowIdle

Did(op, v) == [v EXCEPT !.op = op]

FirstPageClick ==
    /\ c_out.back_btn
    /\ c_out' = Did("go_first_page", go_first_page(c_out, c_in.branches))
    /\ UNCHANGED c_in

PrevPageClick ==
    /\ c_out.back_btn
    /\ c_out' = Did("go_prev_page", go_prev_page(c_out, c_in.branches))
    /\ UNCHANGED c_in

NextPageClick ==
    /\ c_out.forward_btn
    /\ c_out' = Did("go_next_page", go_next_page(c_out, c_in.branches))
    /\ UNCHANGED c_in

LastPageClick ==
    /\ c_out.forward_btn
    /\ c_out' = Did("go_last_page", go_last_page(c_out, c_in.branches))
    /\ UNCHANGED c_in

\* the user sets the spin box to another value of its range
PageSpinChange ==
    /\ \E page \in 1..c_out.page_spin_max :
        /\ page # c_out.page_spin
        /\ c_out' = Did("on_page_changed",
                        on_page_changed([c_out EXCEPT !.page_spin = page], page,
                                        c_in.branches))
    /\ UNCHANGED c_in

\* another entry of page_size_combo; the sizes stand for 0, 50, 100, ...
PageSizeChange ==
    /\ \E size \in 0..MaxPageSize :
        /\ size # c_out.items_per_page
        /\ c_out' = Did("on_page_size_changed",
                        on_page_size_changed(c_out, size, c_in.branches))
    /\ UNCHANGED c_in

\* diff_only_check.toggled is connected to update_table
DiffOnlyToggle ==
    /\ c_out' = Did("update_table",
                    ViewUpdateTable([c_out EXCEPT !.diff_only = ~@], c_in.branches))
    /\ UNCHANGED c_in

NextPaging ==
    \/ FirstPageClick /\ UNCHANGED uiVars
    \/ PrevPageClick /\ UNCHANGED uiVars
    \/ NextPageClick /\ UNCHANGED uiVars
    \/ LastPageClick /\ UNCHANGED uiVars
    \/ PageSpinChange /\ UNCHANGED uiVars
    \/ PageSizeChange /\ UNCHANGED uiVars
    \/ DiffOnlyToggle /\ UNCHANGED uiVars

SpecPaging == InitPaging /\ [][NextPaging]_vars

-----------------------------------------------------------------------------
(* SpecService: the middleware answering one drawn request *)

MaxItems == 2

\* the items of a batch: a price and a name of a code the table holds, a code it
\* does not hold, an item without a field, an item without a code
BatchItems ==
    { [code |-> "1001", price |-> 200],
      [code |-> "1001", name |-> "Z"],
      [code |-> "9999", price |-> 200],
      [code |-> "1001"],
      [price |-> 300] }

\* request.get_json(): a batch, a body of fields, or no body
Bodies ==
    { [items |-> items] : items \in UNION {SeqsOfLen(BatchItems, k) : k \in 0..MaxItems} }
    \cup { EmptyDict, [price |-> 200], [name |-> "Z", code |-> "10"] }

Requests ==
    [endpoint : OpenEndpoints \cup AuthEndpoints,
     api_key : {NoHeader, "wrong", API_KEY},
     code : {"1001", "10"},
     data : Bodies,
     db_up : BOOLEAN,
     faulty : SUBSET (1..MaxItems)]

InitService ==
    /\ c_in \in Requests
    /\ c_out = NotCalled
    /\ WindowIdle

ServeRequest ==
    /\ c_out = NotCalled
    /\ c_out' = [op |-> "serve", before |-> DbInit["c1"]] @@ Serve(c_in, DbInit["c1"])
    /\ UNCHANGED c_in
    /\ UNCHANGED uiVars

NextService == ServeRequest

SpecService == InitService /\ [][NextService]_vars

-----------------------------------------------------------------------------

InitClientSpec == InitClient /\ WindowIdle

NextClient ==
    \/ CallCheckHealth /\ UNCHANGED uiVars
    \/ CallGetArticles /\ UNCHANGED uiVars
    \/ CallBatchUpdate /\ UNCHANGED uiVars

SpecClient == InitClientSpec /\ [][NextClient]_vars

-----------------------------------------------------------------------------
(* SpecBoundary: the client called on anything an HTTP server can answer *)

\* the answers of the middleware, and answers whose body is JSON but not an
\* object
AnyResponses ==
    AllResponses \cup {Response(200, JsonArray), Response(500, JsonArray)}

InitBoundary ==
    /\ c_in \in [retry : RetryCounts, ping : PingOutcomes,
                 transport : TransportsOver(AnyResponses)]
    /\ c_out = NotCalled
    /\ WindowIdle

NextBoundary ==
    \/ CallCheckHealth /\ UNCHANGED uiVars
    \/ CallGetArticles /\ UNCHANGED uiVars
    \/ CallBatchUpdate /\ UNCHANGED uiVars
    \/ CallUpdateArticle /\ UNCHANGED uiVars

SpecBoundary == InitBoundary /\ [][NextBoundary]_vars

-----------------------------------------------------------------------------
(* Claims on the registry (Spec) *)

References == {i \in Indices : branches[i].is_reference}

\* C1: whenever a star click handler has returned, at most one branch has
\* is_reference = true. Fails on the code: on_reference_changed skips every
\* widget whose branch compares equal to the clicked one, and two branches
\* configured with the same fields compare equal once both are reference.
C1_AtMostOneReference == Cardinality(References) <= 1

\* C2: a star click on branch i leaves i the only reference branch. Fails on the
\* code: the click toggles the star, so a click on the reference branch leaves
\* no reference branch at all.
C2_ClickSetsReference ==
    [][\A i \in Indices : StarClick(i) => References' = {i}]_vars

-----------------------------------------------------------------------------
(* Claims on the client (SpecClient) *)

Called(op) == c_out.op = op
Failures == Len(c_in.transport) - 1
Answer == c_in.transport[Len(c_in.transport)]
Connectivity == {ConnectionError, Timeout}
FailedBy(kinds, k) == \A j \in 1..k : c_in.transport[j] \in kinds

\* the authenticated call the method made, if it made one
AuthCalls == SelectSeq(c_out.calls, LAMBDA c : c.endpoint # "/ping")

\* C3: with retry = n >= 1 and a transport whose first k attempts fail with a
\* connection error or timeout and whose attempt k+1 succeeds, _request returns
\* the successful response iff k < n, and otherwise the failure whose error is
\* the one recorded on attempt n.
C3_RetryThenSucceed ==
    (/\ Called("batch_update")
     /\ c_in.retry >= 1
     /\ FailedBy(Connectivity, Failures)
     /\ Answer.body.success)
    => IF Failures < c_in.retry
       THEN c_out.value = Answer.body
       ELSE c_out.value =
              [success |-> FALSE,
               error |-> IF c_in.transport[c_in.retry] = ConnectionError
                         THEN "server unreachable"
                         ELSE "request timeout"]

\* fails twice, then succeeds: a failure under retry 2 (the second error), ...
C3_Witness ==
    /\ Called("batch_update")
    /\ c_in.retry = 2
    /\ Failures = 2
    /\ c_in.transport[1] = ConnectionError
    /\ c_in.transport[2] = Timeout
    /\ Answer.body.success
    /\ c_out.value = [success |-> FALSE, error |-> "request timeout"]

\* C4 as claimed: a well-formed error response is answered by exactly one attempt
\* and returned, and only connection failures and timeouts lead to a further
\* attempt. Fails: an attempt that raises anything else (a body that is not JSON)
\* is retried too. (Stated for retry >= 1: a retry count of 0 makes no attempt.)
C4_Original ==
    (~Called("none") /\ AuthCalls # <<>> /\ c_in.retry >= 1)
    => LET call == AuthCalls[1] IN
       /\ (Failures = 0 /\ ~Answer.body.success) =>
             /\ call.attempts = 1
             /\ Called("batch_update") => c_out.value = Answer.body
       /\ \A j \in 1..(call.attempts - 1) : c_in.transport[j] \in Connectivity

\* C4 amended: with retry >= 1, a well-formed error response to the first attempt
\* is returned after exactly one attempt; a further attempt follows an attempt
\* that raised (connection failure, timeout or any other exception) and only
\* such an attempt, as long as attempts remain.
C4_ErrorResponseNotRetried ==
    (~Called("none") /\ AuthCalls # <<>> /\ c_in.retry >= 1)
    => LET call == AuthCalls[1] IN
       /\ (Failures = 0 /\ ~Answer.body.success) =>
             /\ call.attempts = 1
             /\ Called("batch_update") => c_out.value = Answer.body
       /\ \A j \in 1..(call.attempts - 1) : c_in.transport[j].exc # "none"
       /\ call.attempts < c_in.retry => c_in.transport[call.attempts].exc = "none"

C4_Witness ==
    /\ Called("batch_update")
    /\ c_in.retry = 3
    /\ Failures = 0
    /\ Answer = Response(401, INVALID_API_KEY)
    /\ AuthCalls[1].attempts = 1
    /\ c_out.value = INVALID_API_KEY

PingOk == c_in.ping.exc = "none" /\ c_in.ping.status_code = 200
ProbeAnswered == Failures < c_in.retry

\* C5: check_health is the decision table: /ping raises -> OFFLINE; /ping is not
\* 200 -> API_DOWN; /check/db is called only after a 200; a probe without success
\* gives AUTH_ERROR on DB_AUTH_ERROR or DB_NOT_FOUND and API_DOWN otherwise;
\* CONNECTED only on a probe that reports success.
C5_HealthDecisionTable ==
    Called("check_health")
    => /\ c_in.ping.exc # "none" => c_out.value = OFFLINE
       /\ (c_in.ping.exc = "none" /\ c_in.ping.status_code # 200)
             => c_out.value = API_DOWN
       /\ AuthCalls # <<>> => PingOk
       /\ c_out.calls[1].endpoint = "/ping"
       /\ PingOk =>
             IF ProbeAnswered /\ Answer.body.success
             THEN c_out.value = CONNECTED
             ELSE IF /\ ProbeAnswered
                     /\ "status" \in DOMAIN Answer.body
                     /\ Answer.body.status \in {"DB_AUTH_ERROR", "DB_NOT_FOUND"}
             THEN c_out.value = AUTH_ERROR
             ELSE c_out.value = API_DOWN

C5_Witness ==
    /\ Called("check_health")
    /\ PingOk
    /\ c_in.retry = 2
    /\ Failures = 1
    /\ Answer = Response(500, DbStatus(FALSE, "DB_NOT_FOUND"))
    /\ c_out.value = AUTH_ERROR

\* C6 as claimed: a connectivity failure is retried up to the retry count and,
\* all attempts failed, surfaces as OFFLINE (health check) or as no articles
\* (fetch). Fails: /ping is tried once, and a /check/db that never connects gives
\* API_DOWN.
C6_Original ==
    /\ (Called("check_health") /\ c_in.retry >= 1 /\ PingOk
        /\ ~ProbeAnswered /\ FailedBy(Connectivity, c_in.retry))
       => c_out.value = OFFLINE
    /\ (Called("get_articles") /\ ~ProbeAnswered /\ FailedBy(Connectivity, c_in.retry))
       => (AuthCalls[1].attempts = c_in.retry /\ c_out.value = <<>>)

\* C6 amended: a connectivity failure of /ping is not retried and gives OFFLINE
\* at once; a connectivity failure of an authenticated call is retried up to the
\* retry count and, all attempts failed, gives API_DOWN (health check) or no
\* articles (fetch).
C6_ConnectivityFailure ==
    /\ (Called("check_health") /\ c_in.ping \in Connectivity)
       => (c_out.value = OFFLINE /\ c_out.calls = <<PingCall>>)
    /\ (Called("check_health") /\ PingOk
        /\ ~ProbeAnswered /\ FailedBy(Connectivity, c_in.retry))
       => (AuthCalls[1].attempts = c_in.retry /\ c_out.value = API_DOWN)
    /\ (Called("get_articles") /\ ~ProbeAnswered /\ FailedBy(Connectivity, c_in.retry))
       => (AuthCalls[1].attempts = c_in.retry /\ c_out.value = <<>>)

C6_Witness ==
    /\ Called("check_health")
    /\ PingOk
    /\ c_in.retry = 3
    /\ Failures = 3
    /\ FailedBy(Connectivity, 3)
    /\ AuthCalls[1].attempts = 3
    /\ c_out.value = API_DOWN

-----------------------------------------------------------------------------
(* Claims on the dispatch cycle (SpecApply) *)

InCycle == IF stack = <<>> THEN FALSE ELSE Top.kind = "apply"

\* the step is one iteration of the loop over the groups
GroupStep ==
    /\ InCycle
    /\ Len(stack') = Len(stack)
    /\ stack'[Len(stack)].kind = "apply"
    /\ stack'[Len(stack)].i = Top.i + 1

NextGroup == Top.groups[Top.i + 1]
After == stack'[Len(stack)]

\* no branch of that name is configured, or the (first) one is not CONNECTED
Unhealthy(branch_name) ==
    \/ \A i \in Indices : branches[i].name # branch_name
    \/ \E i \in Indices :
        /\ branches[i].name = branch_name
        /\ \A j \in 1..(i - 1) : branches[j].name # branch_name
        /\ branches[i].status # CONNECTED

\* C7: a group whose branch is not CONNECTED when its turn comes, or is not
\* configured, adds all its changes to the failure tally, and no call is made.
C7_UnhealthySkipped ==
    [][(GroupStep /\ Unhealthy(NextGroup.branch_name))
       => /\ After.fail_count = Top.fail_count + Len(NextGroup.changes)
          /\ After.success_count = Top.success_count
          /\ io' = <<>>
          /\ db' = db]_vars

\* the group just counted was skipped on a branch in AUTH_ERROR
C7_Witness ==
    /\ InCycle
    /\ Top.i >= 1
    /\ ~Top.events
    /\ io = <<>>
    /\ Top.fail_count >= Len(Top.groups[Top.i].changes)
    /\ \E i \in Indices :
        /\ branches[i].name = Top.groups[Top.i].branch_name
        /\ branches[i].status = AUTH_ERROR

\* C8: for a group sent to a CONNECTED branch, a call that reports success adds
\* the server's success_count and failed_count to the tallies; a call that fails
\* outright adds the number of items to the failure tally and nothing to the
\* success tally.
C8_TalliesFollowServer ==
    [][(GroupStep /\ ~Unhealthy(NextGroup.branch_name))
       => /\ After.result # Unbound
          /\ IF After.result.success
             THEN /\ After.success_count =
                        Top.success_count + After.result.summary.success_count
                  /\ After.fail_count =
                        Top.fail_count + After.result.summary.failed_count
             ELSE /\ After.success_count = Top.success_count
                  /\ After.fail_count = Top.fail_count + Len(NextGroup.changes)]_vars

\* two changes sent in one batch, one reported done and one reported failed
C8_Witness ==
    /\ InCycle
    /\ Top.i = 1
    /\ Top.events
    /\ Len(Top.groups[1].changes) = 2
    /\ Top.result # Unbound
    /\ Top.result.success
    /\ Top.result.summary.success_count = 1
    /\ Top.result.summary.failed_count = 1
    /\ Top.success_count = 1
    /\ Top.fail_count = 1

\* the cycle failed outright: every attempt of the batch call failed
C8_WitnessOutright ==
    /\ InCycle
    /\ Top.i = 1
    /\ Top.result = [success |-> FALSE, error |-> "request timeout"]
    /\ Top.success_count = 0
    /\ Top.fail_count = Len(Top.groups[1].changes)

\* C9: once a dispatch cycle has gone through its groups the ledger is empty,
\* whatever the tallies.
C9_LedgerCleared == report.done => pending_changes = <<>>

C9_Witness ==
    /\ report.done
    /\ report.fail_count > 0
    /\ report.success_count > 0
    /\ pending_changes = <<>>

InTrailingFetch ==
    IF stack = <<>> THEN FALSE ELSE Top.kind = "fetch" /\ Top.trailing

\* the step that leaves the loop over the groups
LoopLeft == InCycle /\ Top.i = Len(Top.groups) /\ stack' # stack

\* the step that ends the cycle, and the branches the cycle has fetched by then
CycleEnds ==
    \/ LoopLeft /\ Len(stack') < Len(stack)
    \/ InTrailingFetch /\ Len(stack') < Len(stack)
Refetched == IF InTrailingFetch THEN Range(Top.enabled_branches) ELSE {}

\* C10 as claimed: the fetch that ends the cycle fetches every enabled branch
\* again. Fails: fetch_all_data takes the branches that are enabled and
\* CONNECTED, so an enabled branch in another state keeps its old snapshot.
C10_Original ==
    [][CycleEnds => \A i \in Indices : branches[i].enabled => i \in Refetched]_vars

ConnectedEnabled == {i \in Indices : branches[i].enabled /\ branches[i].status = CONNECTED}

\* C10 amended: after the groups, fetch_all_data is called: it fetches, in
\* registry order, every branch that is enabled and CONNECTED at that moment,
\* each from its own database after the writes of the cycle; every other branch
\* keeps its snapshot, and with no such branch nothing is fetched.
C10_RefetchConnected ==
    [][/\ LoopLeft =>
            IF ConnectedEnabled = {}
            THEN Len(stack') < Len(stack)
            ELSE /\ Len(stack') = Len(stack)
                 /\ After.kind = "fetch"
                 /\ After.trailing
                 /\ After.i = 0
                 /\ Range(After.enabled_branches) = ConnectedEnabled
                 /\ \A k \in 1..(Len(After.enabled_branches) - 1) :
                        After.enabled_branches[k] < After.enabled_branches[k + 1]
       /\ (InTrailingFetch /\ stack' # stack) =>
            IF Top.i < Len(Top.enabled_branches)
            THEN LET b == Top.enabled_branches[Top.i + 1] IN
                 /\ After.i = Top.i + 1
                 /\ branches'[b].articles \in {<<>>, db[branches[b].conn]}
                 /\ \A j \in Indices \ {b} : branches'[j] = branches[j]
                 /\ \A k \in DOMAIN io' : io'[k].branch = b
                 /\ db' = db
            ELSE Len(stack') < Len(stack)]_vars

\* the cycle wrote a price, and the fetch that ends it has fetched the branch
\* of the write and left out an enabled branch that is not connected
C10_Witness ==
    /\ InTrailingFetch
    /\ Top.i = Len(Top.enabled_branches)
    /\ report.done
    /\ report.success_count >= 1
    /\ \E b \in Range(Top.enabled_branches) :
        /\ branches[b].articles = db[branches[b].conn]
        /\ branches[b].articles[1].price = 200
    /\ \E i \in Indices :
        /\ branches[i].enabled
        /\ branches[i].status = OFFLINE
        /\ i \notin Range(Top.enabled_branches)

-----------------------------------------------------------------------------
(* Claims on the enabled flag (SpecApply, Spec) *)

\* the branch the group of this iteration resolves to is switched off
GroupBranchDisabled ==
    LET b == FindBranch(branches, NextGroup.branch_name) IN
    IF b = 0 THEN FALSE ELSE ~branches[b].enabled

\* C11: a branch whose enabled flag is false is left out of dispatch: the
\* iteration over its group sends no batch-update call. Fails on the code:
\* do_apply_changes looks at the status of the branch only, so a branch that was
\* CONNECTED when it was switched off is still written to.
C11_DisabledNotDispatched ==
    [][(GroupStep /\ GroupBranchDisabled) => (io' = <<>> /\ db' = db)]_vars

Toggled(i) == branches'[i].enabled # branches[i].enabled

\* C12: a step that flips the enabled flag of branch i changes nothing else in
\* the registry: the snapshot, the status and the reference flag of i stay, and
\* so does every field of every other branch.
C12_ToggleChangesOnlyFlag ==
    [][\A i \in Indices :
          (Len(branches') = Len(branches) /\ Toggled(i))
          => /\ branches'[i].articles = branches[i].articles
             /\ branches'[i].status = branches[i].status
             /\ branches'[i].is_reference = branches[i].is_reference
             /\ branches'[i].name = branches[i].name
             /\ branches'[i].conn = branches[i].conn
             /\ \A j \in Indices \ {i} : branches'[j] = branches[j]]_vars

\* a branch was switched off after it was found CONNECTED and fetched, and has
\* kept its status and its snapshot
C12_Witness ==
    \E i \in Indices :
        /\ ~branches[i].enabled
        /\ branches[i].status = CONNECTED
        /\ branches[i].articles # <<>>

-----------------------------------------------------------------------------
(* Claims on the table (SpecTable) *)

TableEnabled == {i \in DOMAIN c_in.branches : c_in.branches[i].enabled}

Holds(i, code) ==
    \E k \in DOMAIN c_in.branches[i].articles :
        c_in.branches[i].articles[k].code = code

\* the codes of the snapshots of the enabled branches
UnionCodes ==
    UNION { {c_in.branches[i].articles[k].code :
                k \in DOMAIN c_in.branches[i].articles} : i \in TableEnabled }

\* C13: with diff-only off, update_table produces one row per distinct code of
\* the union of the snapshots of the enabled branches, and total_items counts
\* them.
C13_RowCountIsUnion ==
    (Called("update_table") /\ ~c_in.diff_only)
    => /\ c_out.total_items = Cardinality(UnionCodes)
       /\ Len(c_out.rows_data) = c_out.total_items
       /\ {c_out.rows_data[k].code : k \in DOMAIN c_out.rows_data} = UnionCodes

\* three codes over three enabled branches, one of them held by two branches
C13_Witness ==
    /\ Called("update_table")
    /\ ~c_in.diff_only
    /\ TableEnabled = DOMAIN c_in.branches
    /\ c_out.total_items = 3
    /\ Holds(1, "1001") /\ Holds(2, "1001")
    /\ ~Holds(1, "3003") /\ ~Holds(2, "3003")

\* what branch i reports for a code in the dimension compared
Reported(i, code) ==
    LET articles == c_in.branches[i].articles
        k == CHOOSE k \in DOMAIN articles :
                /\ articles[k].code = code
                /\ \A j \in DOMAIN articles : articles[j].code = code => j <= k
    IN  DimensionValue(BranchData(articles[k]), c_in.compare_type)

\* C14: a row has no difference when all enabled branches that hold its code
\* report values of the same formatted form. Fails on the code: the values are
\* compared by str(), so the int 100 and the float 100.0, both shown as "100",
\* are a difference.
C14_NoDiffOnEqualFormat ==
    Called("update_table")
    => \A r \in DOMAIN c_out.rows_data :
          LET row == c_out.rows_data[r]
              holders == {i \in TableEnabled : Holds(i, row.code)}
          IN  (\A i, j \in holders :
                  DisplayValue(Reported(i, row.code), c_in.compare_type)
                  = DisplayValue(Reported(j, row.code), c_in.compare_type))
              => ~row.has_diff

Unfiltered == rows_data(c_in.branches, c_in.compare_type, FALSE)
Filtered == rows_data(c_in.branches, c_in.compare_type, TRUE)

\* C15: on the same registry and dimension, the rows with diff-only on are the
\* rows with diff-only off that have has_diff, in the same order and with the
\* same contents.
C15_DiffOnlySubsequence ==
    Called("update_table")
    => /\ Filtered = SelectSeq(Unfiltered, LAMBDA row : row.has_diff)
       /\ c_out.rows_data = IF c_in.diff_only THEN Filtered ELSE Unfiltered

\* diff-only dropped one of three rows and kept the other two in their order
C15_Witness ==
    /\ Called("update_table")
    /\ c_in.diff_only
    /\ Len(Unfiltered) = 3
    /\ ~Unfiltered[3].has_diff
    /\ c_out.rows_data = <<Unfiltered[1], Unfiltered[2]>>

RECURSIVE ConcatPages(_, _, _, _)
ConcatPages(rows, size, page, last) ==
    IF page > last THEN <<>>
    ELSE display_data(rows, size, page) \o ConcatPages(rows, size, page + 1, last)

\* C16: for a page size P >= 1 the slices of the pages 1..ceil(N/P), put
\* together in order, are the unpaginated rows; with page size 0 the page shown
\* is the unpaginated rows and get_total_pages is 1.
C16_PagesConcatenate ==
    Called("update_table")
    => LET rows == c_out.rows_data
           size == c_in.items_per_page
       IN  /\ c_out.display_data = display_data(rows, size, c_in.current_page)
           /\ IF size >= 1
              THEN ConcatPages(rows, size, 1, Ceil(Len(rows), size)) = rows
              ELSE /\ c_out.display_data = rows
                   /\ c_out.total_pages = 1
                   /\ get_total_pages(c_out.total_items, size) = 1

\* the second page of three rows in pages of two
C16_Witness ==
    /\ Called("update_table")
    /\ c_in.items_per_page = 2
    /\ c_in.current_page = 2
    /\ c_out.total_items = 3
    /\ c_out.total_pages = 2
    /\ c_out.display_data = <<c_out.rows_data[3]>>

\* the branch that carries the star, if one does
Starred == {i \in DOMAIN c_in.branches : c_in.branches[i].is_reference}
WithReference(bs, q) == [i \in DOMAIN bs |-> [bs[i] EXCEPT !.is_reference = (i = q)]]

Absent == [absent |-> TRUE]
SnapshotName(i, code) ==
    IF Holds(i, code)
    THEN LET articles == c_in.branches[i].articles
             k == CHOOSE k \in DOMAIN articles :
                     /\ articles[k].code = code
                     /\ \A j \in DOMAIN articles : articles[j].code = code => j <= k
         IN  articles[k].name
    ELSE Absent

RowsUnder(q) ==
    rows_data(WithReference(c_in.branches, q), c_in.compare_type, c_in.diff_only)

\* two passes differ in nothing but the reference names
SameButNames(r1, r2) ==
    /\ Len(r1) = Len(r2)
    /\ \A k \in DOMAIN r1 :
        /\ r2[k].code = r1[k].code
        /\ r2[k].values = r1[k].values
        /\ r2[k].has_diff = r1[k].has_diff

\* C17 as claimed: moving the star from p to q changes the reference name only
\* of rows on whose name p and q disagree (a branch without the code counted as
\* disagreeing). Fails: a starred branch that is switched off does not name the
\* rows, the first enabled branch with the code does.
C17_Original ==
    (Called("update_table") /\ Starred # {})
    => \A p \in Starred, q \in DOMAIN c_in.branches \ Starred :
          LET r1 == c_out.rows_data
              r2 == RowsUnder(q)
          IN  /\ SameButNames(r1, r2)
              /\ \A k \in DOMAIN r1 :
                    r2[k].ref_name # r1[k].ref_name
                    => SnapshotName(p, r1[k].code) # SnapshotName(q, r1[k].code)

\* the name a row gets with the star on branch r: of r if r is enabled and holds
\* the code, else of the first enabled branch that holds it
NamedBy(r, code) ==
    IF r \in TableEnabled /\ Holds(r, code) THEN r
    ELSE CHOOSE i \in TableEnabled :
            /\ Holds(i, code)
            /\ \A j \in TableEnabled : Holds(j, code) => i <= j

\* C17 amended: moving the star from p to q leaves the rows, their order, their
\* values and has_diff (in every dimension) as they are and changes the
\* reference name only of rows that p and q name differently, a branch naming a
\* row itself if it is enabled and holds the code and through the first enabled
\* branch holding the code otherwise; for a row that p and q both name
\* themselves the name changes exactly when their names differ.
C17_ReferenceSwitch ==
    (Called("update_table") /\ Starred # {})
    => \A p \in Starred, q \in DOMAIN c_in.branches \ Starred :
          LET r1 == c_out.rows_data
              r2 == RowsUnder(q)
          IN  /\ SameButNames(r1, r2)
              /\ \A k \in DOMAIN r1 :
                    LET code == r1[k].code IN
                    /\ r1[k].ref_name = SnapshotName(NamedBy(p, code), code)
                    /\ r2[k].ref_name = SnapshotName(NamedBy(q, code), code)
                    /\ (/\ p \in TableEnabled /\ Holds(p, code)
                        /\ q \in TableEnabled /\ Holds(q, code))
                       => (r2[k].ref_name # r1[k].ref_name
                           <=> SnapshotName(p, code) # SnapshotName(q, code))

\* the star is on the second branch, which names 1001 "Y", while the first
\* branch names it "X": moving the star to the first branch renames the row
C17_Witness ==
    /\ Called("update_table")
    /\ Starred = {2}
    /\ TableEnabled = DOMAIN c_in.branches
    /\ SnapshotName(1, "1001") = PyStr("X")
    /\ SnapshotName(2, "1001") = PyStr("Y")
    /\ c_out.rows_data[1].code = "1001"
    /\ c_out.rows_data[1].ref_name = PyStr("Y")
    /\ RowsUnder(1)[1].ref_name = PyStr("X")

-----------------------------------------------------------------------------
(* Claims on the middleware (SpecService) *)

\* C18: on every endpoint other than /ping and /health a request whose X-API-Key
\* header is missing or is not the configured key is answered with 401 and
\* INVALID_API_KEY, and the handler makes no database operation: no connection,
\* no read, no write, and the table is as it was.
C18_BadKeyRejected ==
    (/\ Called("serve")
     /\ c_in.endpoint \notin {"/ping", "/health"}
     /\ c_in.api_key # API_KEY)
    => /\ c_out.response.status_code = 401
       /\ c_out.response.body = [success |-> FALSE, error_code |-> "INVALID_API_KEY"]
       /\ c_out.ops = <<>>
       /\ c_out.table = c_out.before

\* a batch that would have written is sent without the header
C18_Witness ==
    /\ Called("serve")
    /\ c_in.endpoint = "/batch/update"
    /\ c_in.api_key = NoHeader
    /\ c_in.db_up
    /\ c_in.faulty = {}
    /\ c_in.data = [items |-> <<[code |-> "1001", price |-> 200]>>]
    /\ c_out.response.status_code = 401
    /\ c_out.ops = <<>>
    /\ c_out.table = c_out.before

SentItems == Get(c_in.data, "items", <<>>)

\* item k of the batch is one the database takes
ItemDone(k) ==
    LET item == SentItems[k] IN
    /\ "code" \in DOMAIN item
    /\ DOMAIN item \cap {"name", "price", "group_code"} # {}
    /\ k \notin c_in.faulty
    /\ \E r \in DOMAIN c_out.before : c_out.before[r].code = item.code

DoneItems == SelectSeq([k \in DOMAIN SentItems |-> k], ItemDone)
FailedItems == SelectSeq([k \in DOMAIN SentItems |-> k], LAMBDA k : ~ItemDone(k))

\* the value the batch leaves in a field of the row of a code: of the last item
\* done that sets it, else the value before
Committed(row, field) ==
    LET setters == {k \in Range(DoneItems) :
                        SentItems[k].code = row.code /\ field \in DOMAIN SentItems[k]}
    IN  IF setters = {} THEN row[field]
        ELSE SentItems[CHOOSE k \in setters : \A j \in setters : j <= k][field]

\* C19: a batch that reaches an open database connection is answered with
\* success = true whatever its items do: each item is in results.success (done)
\* or in results.failed (no code, no field, code not found, database error on
\* the item) and in one of them only, the summary counts them, and the updates
\* of the items done are committed.
C19_ItemFailuresStayItems ==
    (/\ Called("serve")
     /\ c_in.endpoint = "/batch/update"
     /\ c_in.api_key = API_KEY
     /\ c_in.db_up
     /\ SentItems # <<>>)
    => LET body == c_out.response.body IN
       /\ c_out.response.status_code = 200
       /\ body.success
       /\ Len(body.results.success) = Len(DoneItems)
       /\ \A n \in DOMAIN DoneItems :
             body.results.success[n].code = SentItems[DoneItems[n]].code
       /\ Len(body.results.failed) = Len(FailedItems)
       /\ \A n \in DOMAIN FailedItems :
             body.results.failed[n].code = Get(SentItems[FailedItems[n]], "code", "")
       /\ body.summary.total = Len(SentItems)
       /\ body.summary.success_count = Len(DoneItems)
       /\ body.summary.failed_count = Len(FailedItems)
       /\ body.summary.success_count + body.summary.failed_count = body.summary.total
       /\ c_out.ops[Len(c_out.ops)] = "commit"
       /\ Len(c_out.table) = Len(c_out.before)
       /\ \A r \in DOMAIN c_out.table :
             /\ c_out.table[r].code = c_out.before[r].code
             /\ c_out.table[r].name = Committed(c_out.before[r], "name")
             /\ c_out.table[r].price = Committed(c_out.before[r], "price")
             /\ c_out.table[r].group_code = Committed(c_out.before[r], "group_code")

\* the first item is written, the second fails in the database: one done, one
\* failed, and the price of the first is in the table
C19_Witness ==
    /\ Called("serve")
    /\ c_in.endpoint = "/batch/update"
    /\ c_in.api_key = API_KEY
    /\ c_in.db_up
    /\ c_in.faulty = {2}
    /\ SentItems = <<[code |-> "1001", price |-> 200], [code |-> "1001", name |-> "Z"]>>
    /\ c_out.response.body.success
    /\ c_out.response.body.summary = BatchSummary(1, 1)
    /\ c_out.table[1].price = 200
    /\ c_out.table[1].name = "X"

-----------------------------------------------------------------------------
(* Claims on the boundary of the client (SpecBoundary) *)

\* C20: check_health, get_articles, batch_update and update_article return to
\* their caller whatever the transport and the server do. Fails on the code:
\* _request hands back response.json() as it is, and check_health and
\* get_articles call .get on it, which raises AttributeError when the body is
\* JSON but not an object.
C20_NeverRaises == ~Called("none") => ~c_out.raised

\* what holds on the code: nothing is raised for a connection failure, a
\* timeout, a body that is not JSON or a body that is a JSON object, and
\* batch_update and update_article raise nothing at all
C20_RaisesOnlyOnNonObject ==
    ~Called("none")
    => (c_out.raised
        <=> /\ Called("check_health") \/ Called("get_articles")
            /\ Called("check_health") => PingOk
            /\ ProbeAnswered
            /\ ~IsDict(Answer.body))

-----------------------------------------------------------------------------
(* Claims on the grouping of the ledger *)

\* the changes of the ledger that name one branch, in ledger order
LedgerOf(branch_name) ==
    SelectSeq(pending_changes, LAMBDA change : change.branch = branch_name)

\* the place in the ledger where a branch name first appears
FirstSeen(branch_name) ==
    CHOOSE k \in DOMAIN pending_changes :
        /\ pending_changes[k].branch = branch_name
        /\ \A j \in 1..(k - 1) : pending_changes[j].branch # branch_name

\* the groups partition the ledger, each in ledger order, and stand in the order
\* in which their names first appear
Partitioned(groups) ==
    /\ {groups[g].branch_name : g \in DOMAIN groups}
         = {pending_changes[k].branch : k \in DOMAIN pending_changes}
    /\ \A g \in DOMAIN groups :
         groups[g].changes = LedgerOf(groups[g].branch_name)
    /\ \A g, h \in DOMAIN groups :
         g < h => FirstSeen(groups[g].branch_name) < FirstSeen(groups[h].branch_name)

\* the groups of every cycle in progress partition the ledger
GroupsPartitionLedger ==
    \A f \in DOMAIN stack :
        stack[f].kind = "apply" => Partitioned(stack[f].groups)

\* the loop takes the groups one by one as they stand, and a group that is
\* answered was sent whole: the service counted as many items as it has changes
GroupSentWhole ==
    GroupStep =>
        /\ After.groups = Top.groups
        /\ (~Unhealthy(NextGroup.branch_name) /\ Get(After.result, "success", FALSE))
            => After.result.summary.total = Len(NextGroup.changes)

\* C21: the groups of a dispatch cycle partition the ledger: every change is in
\* the group of its branch and in no other, each group keeps the ledger order
\* (two edits of one cell included), and the groups stand in the order in which
\* their branch names first appear in the ledger; the loop dispatches them in
\* that order and sends every change of a group.
C21_GroupsPartitionLedger ==
    []GroupsPartitionLedger /\ [][GroupSentWhole]_vars

\* a ledger with the changes of one branch apart: the first group holds both,
\* among them two edits of one cell, and was sent and answered
C21_Witness ==
    /\ InCycle
    /\ Len(pending_changes) = 3
    /\ Len(Top.groups) = 2
    /\ Top.i = 1
    /\ Top.groups[1].changes = <<pending_changes[1], pending_changes[3]>>
    /\ pending_changes[1].code = pending_changes[3].code
    /\ pending_changes[1].field = pending_changes[3].field
    /\ Get(Top.result, "success", FALSE)
    /\ Top.result.summary.total = 2

-----------------------------------------------------------------------------
(* Claims on the merged index and the rows (SpecTable) *)

\* the enabled branches that carry a non-empty value for a code in the
\* dimension compared
Carriers(code) ==
    {i \in TableEnabled : Holds(i, code) /\ Truthy(Reported(i, code))}

\* two of them carry values of different string forms
Differ(code) ==
    \E i, j \in Carriers(code) :
        PyToStr(Reported(i, code)) # PyToStr(Reported(j, code))

RowCodes == {c_out.rows_data[r].code : r \in DOMAIN c_out.rows_data}

\* C22: has_diff of a row is true iff two enabled branches both carry a non-empty
\* value for the dimension and the string forms of the two values differ; a code
\* with a single carrier has no difference. Rows dropped by diff-only are the
\* codes without such a pair.
C22_HasDiffIsPairwise ==
    Called("update_table")
    => /\ \A r \in DOMAIN c_out.rows_data :
            LET row == c_out.rows_data[r] IN
            /\ row.has_diff <=> Differ(row.code)
            /\ Cardinality(Carriers(row.code)) <= 1 => ~row.has_diff
       /\ \A code \in UnionCodes \ RowCodes : ~Differ(code)

\* stock of 2002: the first branch reports 2.5 and the second 0, which is empty;
\* the row has a single carrier and no difference
C22_Witness ==
    /\ Called("update_table")
    /\ c_in.compare_type = "mojudi"
    /\ ~c_in.diff_only
    /\ TableEnabled = {1, 2}
    /\ Holds(1, "2002") /\ Holds(2, "2002")
    /\ Carriers("2002") = {1}
    /\ \E r \in DOMAIN c_out.rows_data :
        /\ c_out.rows_data[r].code = "2002"
        /\ c_out.rows_data[r].values = <<PyFloat(2500), PyInt(0)>>
        /\ ~c_out.rows_data[r].has_diff

\* three carriers of which only the last differs from the first
C22_WitnessLate ==
    /\ Called("update_table")
    /\ c_in.compare_type = "nam"
    /\ TableEnabled = {1, 2, 3}
    /\ \E r \in DOMAIN c_out.rows_data :
        /\ c_out.rows_data[r].code = "1001"
        /\ c_out.rows_data[r].values = <<PyStr("X"), PyStr("X"), PyStr("Y")>>
        /\ c_out.rows_data[r].has_diff

\* the first of a set of branches, in registry order, whose snapshot holds a code
FirstHolder(among, code) ==
    CHOOSE i \in among :
        /\ Holds(i, code)
        /\ \A j \in among : Holds(j, code) => i <= j

\* C23 as claimed: the reference name of a row is the name the starred branch
\* reports for the code when its snapshot holds the code, and otherwise the name
\* reported by the first branch of the registry whose snapshot holds it. Fails:
\* a branch that is switched off keeps its snapshot but names no row.
C23_Original ==
    Called("update_table")
    => \A r \in DOMAIN c_out.rows_data :
          LET row == c_out.rows_data[r] IN
          IF \E p \in Starred : Holds(p, row.code)
          THEN \E p \in Starred : row.ref_name = SnapshotName(p, row.code)
          ELSE row.ref_name
               = SnapshotName(FirstHolder(DOMAIN c_in.branches, row.code), row.code)

\* C23 amended: the reference name of a row is the name the starred branch
\* reports for the code when that branch is enabled and its snapshot holds the
\* code, and otherwise the name reported by the first enabled branch, in registry
\* order, whose snapshot holds the code; every row has such a branch, and the
\* name is empty only if the name reported is.
C23_ReferenceName ==
    Called("update_table")
    => \A r \in DOMAIN c_out.rows_data :
          LET row == c_out.rows_data[r] IN
          /\ \E i \in TableEnabled : Holds(i, row.code)
          /\ IF \E p \in Starred \cap TableEnabled : Holds(p, row.code)
             THEN \E p \in Starred \cap TableEnabled :
                     row.ref_name = SnapshotName(p, row.code)
             ELSE row.ref_name
                  = SnapshotName(FirstHolder(TableEnabled, row.code), row.code)
          /\ row.ref_name # Absent

\* the third branch carries the star and names 1001 "Y"; it does not hold 2002,
\* which gets its name from the first branch
C23_Witness ==
    /\ Called("update_table")
    /\ ~c_in.diff_only
    /\ Starred = {3}
    /\ TableEnabled = {1, 2, 3}
    /\ SnapshotName(1, "1001") = PyStr("X")
    /\ SnapshotName(3, "1001") = PyStr("Y")
    /\ ~Holds(3, "2002")
    /\ \E r1, r2 \in DOMAIN c_out.rows_data :
        /\ c_out.rows_data[r1].code = "1001"
        /\ c_out.rows_data[r1].ref_name = PyStr("Y")
        /\ c_out.rows_data[r2].code = "2002"
        /\ c_out.rows_data[r2].ref_name = SnapshotName(1, "2002")

\* the article of branch i that update_table reads last for a code
OwnArticle(i, code) ==
    LET articles == c_in.branches[i].articles
        k == CHOOSE k \in DOMAIN articles :
                /\ articles[k].code = code
                /\ \A j \in DOMAIN articles : articles[j].code = code => j <= k
    IN  articles[k]

\* the per-branch entry of branch i in the merged index, Absent if there is none
EntryOf(i, code) ==
    LET entry == DictGet(c_out.all_articles, code, [branches |-> <<>>])
    IN  DictGet(entry.branches, c_in.branches[i].name, Absent)

\* C24: in the merged index, for every code and every enabled branch whose
\* snapshot holds the code, the entry of that branch holds the values of that
\* branch's own article, whatever branches come after it. Fails: the entries are
\* kept under the branch name, and a later enabled branch of the same name that
\* holds the code puts its values over those of the earlier one.
C24_EntriesAreOwn ==
    Called("update_table")
    => \A i \in TableEnabled :
          \A k \in DOMAIN c_in.branches[i].articles :
              LET code == c_in.branches[i].articles[k].code IN
              EntryOf(i, code) = BranchData(OwnArticle(i, code))

-----------------------------------------------------------------------------
(* Claims on the attempts and waits of _request (SpecClient) *)

\* the attempts of the transport that raise before the first that returns
Raising == Failures

\* the attempts and waits of a call: at most retry attempts, ended by the first
\* attempt that returns, with one wait between two consecutive attempts and none
\* after the last
AttemptsAndWaits(call) ==
    /\ call.attempts <= c_in.retry
    /\ call.attempts = Min(c_in.retry, Raising + 1)
    /\ call.sleeps = IF call.attempts = 0 THEN 0 ELSE call.attempts - 1

\* C25 as claimed: at most retry attempts, one wait between two consecutive
\* attempts, none after the last attempt and none after an attempt that produced
\* a response, and retry attempts with retry-1 waits when all attempts fail.
\* Fails: an attempt answered with a body that is not JSON is followed by the
\* wait and a further attempt, and with retry 0 there are no attempts and no
\* waits.
C25_Original ==
    (c_out # NotCalled /\ AuthCalls # <<>>)
    => LET call == AuthCalls[1] IN
       /\ AttemptsAndWaits(call)
       /\ \A j \in 1..(call.attempts - 1) : c_in.transport[j] \in Connectivity
       /\ Raising >= c_in.retry
          => call.attempts = c_in.retry /\ call.sleeps = c_in.retry - 1

\* C25 amended: _request returns after at most retry attempts, at the first
\* attempt that returns a parsed body; it waits once between two consecutive
\* attempts, never after the last attempt and never after the attempt that
\* returned, whatever made the earlier attempts raise; with retry >= 1 a call in
\* which all attempts raise makes retry attempts and retry-1 waits, and with
\* retry 0 it makes no attempt and no wait.
C25_AttemptsAndWaits ==
    (c_out # NotCalled /\ AuthCalls # <<>>)
    => LET call == AuthCalls[1] IN
       /\ AttemptsAndWaits(call)
       /\ (Raising >= c_in.retry /\ c_in.retry >= 1)
          => call.attempts = c_in.retry /\ call.sleeps = c_in.retry - 1
       /\ c_in.retry = 0 => call.attempts = 0 /\ call.sleeps = 0
       /\ Raising < c_in.retry
          => call.attempts = Raising + 1 /\ call.sleeps = Raising

\* three attempts that all fail, with two waits
C25_Witness ==
    /\ Called("batch_update")
    /\ c_in.retry = 3
    /\ Raising = 3
    /\ AuthCalls[1].attempts = 3
    /\ AuthCalls[1].sleeps = 2
    /\ c_out.value.success = FALSE

-----------------------------------------------------------------------------
(* Claims on passes and the events they let in *)

\* a fetch pass or a dispatch cycle stands between its first and its last branch
MidPass ==
    /\ stack # <<>>
    /\ Top.i >= 1
    /\ Top.i < (IF Top.kind = "fetch" THEN Len(Top.enabled_branches)
                ELSE Len(Top.groups))

\* the registry fields a pass reads are as they were
SameFlags ==
    \A i \in Indices :
        /\ branches'[i].status = branches[i].status
        /\ branches'[i].enabled = branches[i].enabled
        /\ branches'[i].is_reference = branches[i].is_reference

\* C26: between the first and the last branch of a fetch pass or a dispatch
\* cycle nothing but the pass itself runs: no step starts another pass and none
\* changes a health status, an enabled flag, a reference flag or the ledger.
\* Fails: processEvents at the end of every iteration delivers the clicks that
\* are waiting, and their handlers run inside the loop.
C26_PassesDoNotInterleave ==
    [][MidPass => /\ Len(stack') = Len(stack)
                  /\ stack'[Len(stack)].i = Top.i + 1
                  /\ SameFlags
                  /\ pending_changes' = pending_changes]_vars

-----------------------------------------------------------------------------
(* Claims on the tallies of a whole cycle (SpecApply) *)

\* the changes of the groups the loop has gone through
RECURSIVE CountedUpTo(_, _)
CountedUpTo(groups, i) ==
    IF i = 0 THEN 0 ELSE CountedUpTo(groups, i - 1) + Len(groups[i].changes)

\* in a cycle the two tallies together count the changes of the groups gone
\* through, and the ledger is the one the cycle started on
TalliesCountGroups ==
    InCycle
    => /\ Top.success_count + Top.fail_count = CountedUpTo(Top.groups, Top.i)
       /\ CountedUpTo(Top.groups, Len(Top.groups)) = Len(pending_changes)

\* the tallies shown when the loop is left count the ledger
ReportCountsLedger ==
    LoopLeft => /\ report'.done
                /\ report'.success_count + report'.fail_count = Len(pending_changes)

\* C27: against a middleware that answers /batch/update as holoo_api does, the
\* success and failure tallies of a cycle together count every change of the
\* ledger the cycle started on exactly once: after every group they count the
\* changes of the groups gone through, and the tallies reported at the end add
\* up to the length of the ledger, changes of unknown or unhealthy branches and
\* changes without a wire field included.
C27_EveryChangeCountedOnce ==
    []TalliesCountGroups /\ [][ReportCountsLedger]_vars

\* two changes of a branch that is not configured and one stock change of a
\* CONNECTED branch, which the service answers as a failed item: three failures
C27_Witness ==
    /\ InCycle
    /\ Len(pending_changes) = 3
    /\ Top.i = Len(Top.groups)
    /\ Top.groups[1].branch_name = "N"
    /\ Top.groups[2].changes[1].field = "mojudi"
    /\ Get(Top.result, "success", FALSE)
    /\ Top.result.summary.failed_count = 1
    /\ Top.success_count = 0
    /\ Top.fail_count = 3

-----------------------------------------------------------------------------
(* Claims on the ledger of the main window (Spec) *)

\* C28: in every state the window reaches from start-up through its event
\* handlers the ledger is empty and the apply button is disabled, so no click
\* enters do_apply_changes: no cycle is in progress and none has reported.
C28_LedgerStaysEmpty ==
    /\ pending_changes = <<>>
    /\ ~buttons.apply_btn
    /\ \A f \in DOMAIN stack : stack[f].kind # "apply"
    /\ ~report.done

\* after a health pass, a fetch pass and a click on a box: a snapshot is there
\* to be edited, a branch is switched off, and there is still nothing to apply
C28_Witness ==
    /\ stack = <<>>
    /\ \E i \in Indices : branches[i].articles # <<>>
    /\ \E i \in Indices : ~branches[i].enabled
    /\ buttons.fetch_btn
    /\ pending_changes = <<>>
    /\ ~buttons.apply_btn

-----------------------------------------------------------------------------
(* Claims on page navigation (SpecPaging) *)

Navigations ==
    {"go_first_page", "go_prev_page", "go_next_page", "go_last_page",
     "on_page_changed"}

\* the rows update_table would build now
CurrentRows == rows_data(c_in.branches, c_out.compare_type, c_out.diff_only)

\* C29: after a click on the first, previous, next or last button or a change
\* of the spin box, current_page lies in 1..get_total_pages() and the table
\* shows the slice of the current rows that belongs to current_page. Fails: the
\* buttons set current_page before they set the spin box, so on_page_changed
\* finds the page unchanged and update_table is not called; the table keeps the
\* rows of the page it showed before.
C29_NavigationRenders ==
    c_out.op \in Navigations
    => /\ 1 <= c_out.current_page
       /\ c_out.current_page
            <= get_total_pages(c_out.total_items, c_out.items_per_page)
       /\ c_out.table
            = display_data(CurrentRows, c_out.items_per_page, c_out.current_page)

-----------------------------------------------------------------------------
(* Claims on the health pass (Spec) *)

\* the calls of the step on branch i, as endpoints
CallsOn(i) ==
    LET on == SelectSeq(io', LAMBDA c : c.branch = i)
    IN  [k \in DOMAIN on |-> on[k].endpoint]

\* the step is a health pass: it probes a branch or changes a status
HealthStep ==
    \/ \E k \in DOMAIN io' : io'[k].endpoint = "/ping"
    \/ \E i \in Indices : branches'[i].status # branches[i].status

\* C30: a health pass leaves every enabled branch with the result of the one
\* probe made for it in the pass (OFFLINE or API_DOWN when the probe ended at
\* /ping, the answer to /check/db otherwise) and every disabled branch with
\* UNKNOWN, without a probe and whatever its status was; it changes no snapshot,
\* no enabled flag and no reference flag.
C30_HealthPassSetsStatus ==
    [][HealthStep =>
        /\ \A i \in Indices :
            /\ branches'[i].enabled = branches[i].enabled
            /\ branches'[i].is_reference = branches[i].is_reference
            /\ branches'[i].articles = branches[i].articles
            /\ IF branches[i].enabled
               THEN \/ /\ CallsOn(i) = <<"/ping">>
                       /\ branches'[i].status \in {OFFLINE, API_DOWN}
                    \/ /\ CallsOn(i) = <<"/ping", "/check/db">>
                       /\ branches'[i].status \in {CONNECTED, AUTH_ERROR, API_DOWN}
               ELSE /\ CallsOn(i) = <<>>
                    /\ branches'[i].status = UNKNOWN
        /\ star_checked' = star_checked
        /\ stack' = stack]_vars

\* a branch that was CONNECTED and fetched is switched off: the pass that finds
\* the first branch CONNECTED leaves it UNKNOWN with its snapshot
C30_Witness ==
    /\ Len(branches) = 2
    /\ io = <<[branch |-> 1, endpoint |-> "/ping"],
             [branch |-> 1, endpoint |-> "/check/db"]>>
    /\ branches[1].enabled
    /\ branches[1].status = CONNECTED
    /\ ~branches[2].enabled
    /\ branches[2].status = UNKNOWN
    /\ branches[2].articles # <<>>

=============================================================================
